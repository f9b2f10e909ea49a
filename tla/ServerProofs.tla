----------------------------- MODULE ServerProofs -----------------------------
(***************************************************************************)
(* Proofs about the two components of the server: ClientSessions, for      *)
(* every set of clients and connections and any number of configurations,  *)
(* and, at the end, UIPush.                                                *)
(*                                                                         *)
(* Each invariant says where a handler must be for the three things it     *)
(* changes (registry, selection, map of connections) to disagree.  It is   *)
(* proved with one step for each action.                                   *)
(***************************************************************************)
EXTENDS ClientSessions, UIPush, TLAPS

-----------------------------------------------------------------------------
(***************************************************************************)
(* Types.  A handler that is at work has a client, and one that is about   *)
(* to register it, or to welcome it, has read a configuration.             *)
(***************************************************************************)
HandlerStates == [pc : HandlerPCs, id : Clients \cup {NoClient},
                  cfg : Configs \cup {NoConfig}]

HandlersOK ==
    \A k \in Conns :
        /\ ~At(k, "closed") => Id(k) \in Clients
        /\ handler[k].pc \in {"upsert", "notify", "publish", "welcome"}
               => handler[k].cfg \in Configs

TypeInv == TypeOK /\ HandlersOK

LEMMA ConfigsAreNumbers ==
    ASSUME NEW n \in Configs
    PROVE  /\ n \in Nat
           /\ n # NoConfig
           /\ n < MaxConfig => n + 1 \in Configs
  BY SessionsAssumption DEF Configs, NoConfig

\* Handler k moves to the state `new', the other handlers stay where they are.
LEMMA HandlerMoves ==
    ASSUME TypeInv, NEW k \in Conns, NEW new \in HandlerStates,
           new.pc # "closed" => new.id \in Clients,
           new.pc \in {"upsert", "notify", "publish", "welcome"}
               => new.cfg \in Configs,
           handler' = [handler EXCEPT ![k] = new]
    PROVE  /\ handler' \in [Conns -> HandlerStates]
           /\ HandlersOK'
  BY DEF TypeInv, TypeOK, HandlersOK, HandlerStates, At, Id

LEMMA SendType ==
    ASSUME TypeOK, NEW conns, NEW type \in {"welcome", "config"},
           NEW new \in Configs, Send(conns, type, new)
    PROVE  out' \in [Conns -> Seq(Messages)]
  <1>1. [type |-> type, config |-> new] \in Messages
    BY DEF Messages
  <1> QED BY <1>1 DEF TypeOK, Send

LEMMA InitTypeInv == Init => TypeInv
  <1> SUFFICES ASSUME Init PROVE TypeInv
    OBVIOUS
  <1>1. cfg \in Configs
    BY SessionsAssumption DEF Init, Configs
  <1>2. handler \in [Conns -> HandlerStates] /\ HandlersOK
    BY DEF Init, HandlerStates, HandlerPCs, HandlersOK, At
  <1>3. out \in [Conns -> Seq(Messages)]
    BY DEF Init
  <1> QED BY <1>1, <1>2, <1>3 DEF Init, TypeInv, TypeOK, HandlerStates

LEMMA NextTypeInv == TypeInv /\ [Next]_vars => TypeInv'
  <1> SUFFICES ASSUME TypeInv, [Next]_vars PROVE TypeInv'
    OBVIOUS
  <1>1. ASSUME NEW c \in Clients, NEW k \in Conns, Dial(c, k) PROVE TypeInv'
    <2> DEFINE new == [handler[k] EXCEPT !.pc = "register", !.id = c]
    <2>1. handler[k] \in HandlerStates
      BY DEF TypeInv, TypeOK, HandlerStates
    <2>2. /\ new \in HandlerStates
          /\ new.pc = "register" /\ new.id = c
      BY <2>1 DEF HandlerStates, HandlerPCs
    <2>3. handler' = [handler EXCEPT ![k] = new]
      BY <1>1 DEF Dial, TypeInv, TypeOK
    <2>4. handler' \in [Conns -> HandlerStates] /\ HandlersOK'
      BY <2>2, <2>3, HandlerMoves
    <2> QED BY <1>1, <2>4 DEF Dial, TypeInv, TypeOK, HandlerStates
  <1>2. ASSUME NEW c \in Clients, SessionEnds(c) PROVE TypeInv'
    BY <1>2 DEF SessionEnds, Hangup, server, TypeInv, TypeOK, HandlersOK, At, Id
  <1>3. ASSUME NEW c \in Clients, Crash(c) PROVE TypeInv'
    BY <1>3 DEF Crash, Hangup, server, TypeInv, TypeOK, HandlersOK, At, Id
  <1>4. ASSUME NEW c \in Clients, Receive(c) PROVE TypeInv'
    <2>1. conn[c] \in Conns /\ out[conn[c]] \in Seq(Messages)
      BY <1>4 DEF Receive, TypeInv, TypeOK
    <2>2. /\ Head(out[conn[c]]) \in Messages
          /\ Tail(out[conn[c]]) \in Seq(Messages)
      BY <1>4, <2>1 DEF Receive
    <2>3. config' \in [Clients -> Configs \cup {NoConfig}]
      BY <1>4, <2>2 DEF Receive, TypeInv, TypeOK, Messages
    <2>4. out' \in [Conns -> Seq(Messages)]
      BY <1>4, <2>1, <2>2 DEF Receive, TypeInv, TypeOK
    <2>5. clientID' \in SUBSET Clients
      BY <1>4 DEF Receive, TypeInv, TypeOK
    <2> QED BY <1>4, <2>3, <2>4, <2>5
        DEF Receive, server, TypeInv, TypeOK, HandlersOK, At, Id
  <1>5. ASSUME NEW k \in Conns, ReadConfig(k) PROVE TypeInv'
    <2> DEFINE new == [handler[k] EXCEPT !.pc = "upsert", !.cfg = cfg]
    <2>1. /\ new \in HandlerStates
          /\ new.pc # "closed" => new.id \in Clients
          /\ new.pc \in {"upsert", "notify", "publish", "welcome"}
                 => new.cfg \in Configs
      BY <1>5 DEF ReadConfig, TypeInv, TypeOK, HandlersOK, HandlerStates, HandlerPCs,
         At, Id
    <2>2. handler' = [handler EXCEPT ![k] = new]
      BY <1>5 DEF ReadConfig, Goto, Return, TypeInv, TypeOK
    <2>3. handler' \in [Conns -> HandlerStates] /\ HandlersOK'
      BY <2>1, <2>2, HandlerMoves
    <2> QED BY <1>5, <2>3 DEF ReadConfig, TypeInv, TypeOK, HandlerStates, client
  <1>6. ASSUME NEW k \in Conns, NeverRegisters(k) PROVE TypeInv'
    <2> DEFINE new == [handler[k] EXCEPT !.pc = "closed", !.id = NoClient]
    <2>1. /\ new \in HandlerStates
          /\ new.pc # "closed" => new.id \in Clients
          /\ new.pc \in {"upsert", "notify", "publish", "welcome"}
                 => new.cfg \in Configs
      BY <1>6 DEF NeverRegisters, TypeInv, TypeOK, HandlersOK, HandlerStates,
         HandlerPCs, At, Id
    <2>2. handler' = [handler EXCEPT ![k] = new]
      BY <1>6 DEF NeverRegisters, Goto, Return, TypeInv, TypeOK
    <2>3. handler' \in [Conns -> HandlerStates] /\ HandlersOK'
      BY <2>1, <2>2, HandlerMoves
    <2> QED BY <1>6, <2>3 DEF NeverRegisters, TypeInv, TypeOK, HandlerStates, client
  <1>7. ASSUME NEW k \in Conns, Upsert(k) PROVE TypeInv'
    <2> DEFINE new == [handler[k] EXCEPT !.pc = "notify"]
    <2>1. /\ new \in HandlerStates
          /\ new.pc # "closed" => new.id \in Clients
          /\ new.pc \in {"upsert", "notify", "publish", "welcome"}
                 => new.cfg \in Configs
      BY <1>7 DEF Upsert, TypeInv, TypeOK, HandlersOK, HandlerStates, HandlerPCs, At, Id
    <2>2. handler' = [handler EXCEPT ![k] = new]
      BY <1>7 DEF Upsert, Goto, Return, TypeInv, TypeOK
    <2>3. handler' \in [Conns -> HandlerStates] /\ HandlersOK'
      BY <2>1, <2>2, HandlerMoves
    <2>4. handler[k].cfg \in Configs
      BY <1>7 DEF Upsert, TypeInv, HandlersOK, At
    <2> QED BY <1>7, <2>3, <2>4 DEF Upsert, TypeInv, TypeOK, HandlerStates, client
  <1>8. ASSUME NEW k \in Conns, OnClientRegistered(k) PROVE TypeInv'
    <2> DEFINE new == [handler[k] EXCEPT !.pc = "publish"]
    <2>1. /\ new \in HandlerStates
          /\ new.pc # "closed" => new.id \in Clients
          /\ new.pc \in {"upsert", "notify", "publish", "welcome"}
                 => new.cfg \in Configs
      BY <1>8 DEF OnClientRegistered, TypeInv, TypeOK, HandlersOK, HandlerStates,
         HandlerPCs, At, Id
    <2>2. handler' = [handler EXCEPT ![k] = new]
      BY <1>8 DEF OnClientRegistered, Goto, Return, TypeInv, TypeOK
    <2>3. handler' \in [Conns -> HandlerStates] /\ HandlersOK'
      BY <2>1, <2>2, HandlerMoves
    <2>4. Id(k) \in Clients
      BY <1>8 DEF OnClientRegistered, TypeInv, HandlersOK, At
    <2> QED BY <1>8, <2>3, <2>4 DEF OnClientRegistered, TypeInv, TypeOK,
               HandlerStates, client
  <1>9. ASSUME NEW k \in Conns, Publish(k) PROVE TypeInv'
    <2> DEFINE new == [handler[k] EXCEPT !.pc = "welcome"]
    <2>1. /\ new \in HandlerStates
          /\ new.pc # "closed" => new.id \in Clients
          /\ new.pc \in {"upsert", "notify", "publish", "welcome"}
                 => new.cfg \in Configs
      BY <1>9 DEF Publish, TypeInv, TypeOK, HandlersOK, HandlerStates, HandlerPCs, At,
         Id
    <2>2. handler' = [handler EXCEPT ![k] = new]
      BY <1>9 DEF Publish, Goto, Return, TypeInv, TypeOK
    <2>3. handler' \in [Conns -> HandlerStates] /\ HandlersOK'
      BY <2>1, <2>2, HandlerMoves
    <2> QED BY <1>9, <2>3 DEF Publish, TypeInv, TypeOK, HandlerStates, client
  <1>10. ASSUME NEW k \in Conns, Welcome(k) PROVE TypeInv'
    <2> DEFINE new == [handler[k] EXCEPT !.pc = "serve", !.cfg = NoConfig]
    <2>1. /\ new \in HandlerStates
          /\ new.pc # "closed" => new.id \in Clients
          /\ new.pc \in {"upsert", "notify", "publish", "welcome"}
                 => new.cfg \in Configs
      BY <1>10 DEF Welcome, TypeInv, TypeOK, HandlersOK, HandlerStates, HandlerPCs,
         At, Id
    <2>2. handler' = [handler EXCEPT ![k] = new]
      BY <1>10 DEF Welcome, Goto, Return, TypeInv, TypeOK
    <2>3. handler' \in [Conns -> HandlerStates] /\ HandlersOK'
      BY <2>1, <2>2, HandlerMoves
    <2>4. out' \in [Conns -> Seq(Messages)]
      BY <1>10, SendType DEF Welcome, TypeInv, HandlersOK, At
    <2> QED BY <1>10, <2>3, <2>4 DEF Welcome, TypeInv, TypeOK, HandlerStates, client
  <1>11. ASSUME NEW k \in Conns, ReadFails(k) PROVE TypeInv'
    <2> DEFINE new == [handler[k] EXCEPT !.pc = "teardown"]
    <2>1. /\ new \in HandlerStates
          /\ new.pc # "closed" => new.id \in Clients
          /\ new.pc \in {"upsert", "notify", "publish", "welcome"}
                 => new.cfg \in Configs
      BY <1>11 DEF ReadFails, TypeInv, TypeOK, HandlersOK, HandlerStates, HandlerPCs,
         At, Id
    <2>2. handler' = [handler EXCEPT ![k] = new]
      BY <1>11 DEF ReadFails, Goto, Return, TypeInv, TypeOK
    <2>3. handler' \in [Conns -> HandlerStates] /\ HandlersOK'
      BY <2>1, <2>2, HandlerMoves
    <2> QED BY <1>11, <2>3 DEF ReadFails, TypeInv, TypeOK, HandlerStates, client
  <1>12. ASSUME NEW k \in Conns, Teardown(k) PROVE TypeInv'
    <2> DEFINE new == IF clients[Id(k)] = k
                         THEN [handler[k] EXCEPT !.pc = "removed"]
                         ELSE [handler[k] EXCEPT !.pc = "closed", !.id = NoClient]
    <2>1. /\ new \in HandlerStates
          /\ new.pc # "closed" => new.id \in Clients
          /\ new.pc \in {"upsert", "notify", "publish", "welcome"}
                 => new.cfg \in Configs
      BY <1>12 DEF Teardown, TypeInv, TypeOK, HandlersOK, HandlerStates, HandlerPCs,
         At, Id
    <2>2. handler' = [handler EXCEPT ![k] = new]
      BY <1>12 DEF Teardown, Goto, Return, TypeInv, TypeOK
    <2>3. handler' \in [Conns -> HandlerStates] /\ HandlersOK'
      BY <2>1, <2>2, HandlerMoves
    <2> QED BY <1>12, <2>3 DEF Teardown, TypeInv, TypeOK, HandlerStates, client
  <1>13. ASSUME NEW k \in Conns, OnClientRemoved(k) PROVE TypeInv'
    <2> DEFINE new == [handler[k] EXCEPT !.pc = "closed", !.id = NoClient]
    <2>1. /\ new \in HandlerStates
          /\ new.pc # "closed" => new.id \in Clients
          /\ new.pc \in {"upsert", "notify", "publish", "welcome"}
                 => new.cfg \in Configs
      BY <1>13 DEF OnClientRemoved, TypeInv, TypeOK, HandlersOK, HandlerStates,
         HandlerPCs, At, Id
    <2>2. handler' = [handler EXCEPT ![k] = new]
      BY <1>13 DEF OnClientRemoved, Goto, Return, TypeInv, TypeOK
    <2>3. handler' \in [Conns -> HandlerStates] /\ HandlersOK'
      BY <2>1, <2>2, HandlerMoves
    <2> QED BY <1>13, <2>3 DEF OnClientRemoved, TypeInv, TypeOK, HandlerStates, client
  <1>14. CASE Prune
    BY <1>14 DEF Prune, client, TypeInv, TypeOK, HandlersOK, Registered, At, Id
  <1>15. ASSUME NEW c \in Clients, ClosePruned(c) PROVE TypeInv'
    BY <1>15 DEF ClosePruned, client, TypeInv, TypeOK, HandlersOK, At, Id
  <1>16. CASE TellPruned
    BY <1>16 DEF TellPruned, client, TypeInv, TypeOK, HandlersOK, At, Id
  <1>17. CASE SetConfig
    <2>1. cfg + 1 \in Configs
      BY <1>17, ConfigsAreNumbers DEF SetConfig, TypeInv, TypeOK
    <2>2. out' \in [Conns -> Seq(Messages)]
      BY <1>17, <2>1, SendType DEF SetConfig, TypeInv
    <2> QED BY <1>17, <2>1, <2>2
        DEF SetConfig, client, TypeInv, TypeOK, HandlersOK, At, Id
  <1>18. CASE UNCHANGED vars
    BY <1>18 DEF vars, server, client, TypeInv, TypeOK, HandlersOK, At, Id
  <1> QED
    BY <1>1, <1>2, <1>3, <1>4, <1>5, <1>6, <1>7, <1>8, <1>9, <1>10,
       <1>11, <1>12, <1>13, <1>14, <1>15, <1>16, <1>17, <1>18
    DEF Next, HandlerNext, ClientNext, PrunerNext

LEMMA AlwaysTypeInv == Spec => []TypeInv
  BY InitTypeInv, NextTypeInv, PTL DEF Spec

\* Type correctness: every variable of the sessions keeps its type, whatever
\* handlers, clients and the prune loop do.
THEOREM TypeCorrect == Spec => []TypeOK
  BY AlwaysTypeInv, PTL DEF TypeInv

-----------------------------------------------------------------------------
(***************************************************************************)
(* Who serves.  An open connection that is served is its client's current  *)
(* one: Publish, ClosePruned and Teardown take a connection out of the map *)
(* only with its socket or after its last read.                            *)
(***************************************************************************)
ServedIsCurrent ==
    \A k \in open : Served(k) => clients[Id(k)] = k

LEMMA InitServedIsCurrent == Init => ServedIsCurrent
  BY SessionsAssumption DEF Init, ServedIsCurrent, Served, Id

LEMMA NextServedIsCurrent ==
    TypeInv /\ ServedIsCurrent /\ [Next]_vars => ServedIsCurrent'
  <1> SUFFICES ASSUME TypeInv, ServedIsCurrent, [Next]_vars PROVE ServedIsCurrent'
    OBVIOUS
  <1> USE SessionsAssumption DEF ServedIsCurrent, Served, Id, TypeInv, TypeOK, HandlersOK,
      At, Goto, Return, Hangup
  <1>1. ASSUME NEW c \in Clients, NEW k \in Conns, Dial(c, k) PROVE ServedIsCurrent'
    BY <1>1 DEF Dial
  <1>2. ASSUME NEW c \in Clients, SessionEnds(c) PROVE ServedIsCurrent'
    BY <1>2 DEF SessionEnds, server
  <1>3. ASSUME NEW c \in Clients, Crash(c) PROVE ServedIsCurrent'
    BY <1>3 DEF Crash, server
  <1>4. ASSUME NEW c \in Clients, Receive(c) PROVE ServedIsCurrent'
    BY <1>4 DEF Receive, server
  <1>5. ASSUME NEW k \in Conns, ReadConfig(k) PROVE ServedIsCurrent'
    BY <1>5 DEF ReadConfig
  <1>6. ASSUME NEW k \in Conns, NeverRegisters(k) PROVE ServedIsCurrent'
    BY <1>6 DEF NeverRegisters
  <1>7. ASSUME NEW k \in Conns, Upsert(k) PROVE ServedIsCurrent'
    BY <1>7 DEF Upsert
  <1>8. ASSUME NEW k \in Conns, OnClientRegistered(k) PROVE ServedIsCurrent'
    BY <1>8 DEF OnClientRegistered
  <1>9. ASSUME NEW k \in Conns, Publish(k) PROVE ServedIsCurrent'
    BY <1>9 DEF Publish
  <1>10. ASSUME NEW k \in Conns, Welcome(k) PROVE ServedIsCurrent'
    BY <1>10 DEF Welcome
  <1>11. ASSUME NEW k \in Conns, ReadFails(k) PROVE ServedIsCurrent'
    BY <1>11 DEF ReadFails
  <1>12. ASSUME NEW k \in Conns, Teardown(k) PROVE ServedIsCurrent'
    BY <1>12 DEF Teardown
  <1>13. ASSUME NEW k \in Conns, OnClientRemoved(k) PROVE ServedIsCurrent'
    BY <1>13 DEF OnClientRemoved
  <1>14. CASE Prune
    BY <1>14 DEF Prune
  <1>15. ASSUME NEW c \in Clients, ClosePruned(c) PROVE ServedIsCurrent'
    BY <1>15 DEF ClosePruned
  <1>16. CASE TellPruned
    BY <1>16 DEF TellPruned
  <1>17. CASE SetConfig
    BY <1>17 DEF SetConfig, Send
  <1>18. CASE UNCHANGED vars
    BY <1>18 DEF vars, server, client
  <1> QED
    BY <1>1, <1>2, <1>3, <1>4, <1>5, <1>6, <1>7, <1>8, <1>9, <1>10,
       <1>11, <1>12, <1>13, <1>14, <1>15, <1>16, <1>17, <1>18
    DEF Next, HandlerNext, ClientNext, PrunerNext

\* No client is ever served on two open connections, however its reconnects,
\* the teardown of old handlers and the prune loop interleave.
THEOREM ServedOnOneConnection == Spec => []ServedOnce
  <1>1. ServedIsCurrent => ServedOnce
    BY DEF ServedIsCurrent, ServedOnce
  <1> QED BY <1>1, AlwaysTypeInv, InitServedIsCurrent, NextServedIsCurrent, PTL DEF Spec

-----------------------------------------------------------------------------
(***************************************************************************)
(* Who is selected.  A selected client without a connection has a handler  *)
(* that is about to publish one or to report the loss, or is being         *)
(* reported by the prune loop.                                             *)
(***************************************************************************)
LossIsReported ==
    \A c \in selectedIDs :
        \/ clients[c] # NoConn
        \/ \E k \in Conns : Id(k) = c /\ handler[k].pc \in {"publish", "removed"}
        \/ telling = c

LEMMA InitLossIsReported == Init => LossIsReported
  BY SessionsAssumption DEF Init, LossIsReported, Id

LEMMA NextLossIsReported == TypeInv /\ LossIsReported /\ [Next]_vars => LossIsReported'
  <1> SUFFICES ASSUME TypeInv, LossIsReported, [Next]_vars PROVE LossIsReported'
    OBVIOUS
  <1> USE SessionsAssumption DEF LossIsReported, Id, TypeInv, TypeOK, HandlersOK,
      At, Goto, Return, Hangup
  <1>1. ASSUME NEW c \in Clients, NEW k \in Conns, Dial(c, k) PROVE LossIsReported'
    <2>1. /\ At(k, "closed")
          /\ \A j \in Conns \ {k} : handler'[j] = handler[j]
      BY <1>1 DEF Dial
    <2> QED BY <1>1, <2>1 DEF Dial
  <1>2. ASSUME NEW c \in Clients, SessionEnds(c) PROVE LossIsReported'
    BY <1>2 DEF SessionEnds, server
  <1>3. ASSUME NEW c \in Clients, Crash(c) PROVE LossIsReported'
    BY <1>3 DEF Crash, server
  <1>4. ASSUME NEW c \in Clients, Receive(c) PROVE LossIsReported'
    BY <1>4 DEF Receive, server
  <1>5. ASSUME NEW k \in Conns, ReadConfig(k) PROVE LossIsReported'
    BY <1>5 DEF ReadConfig
  <1>6. ASSUME NEW k \in Conns, NeverRegisters(k) PROVE LossIsReported'
    BY <1>6 DEF NeverRegisters
  <1>7. ASSUME NEW k \in Conns, Upsert(k) PROVE LossIsReported'
    BY <1>7 DEF Upsert
  <1>8. ASSUME NEW k \in Conns, OnClientRegistered(k) PROVE LossIsReported'
    BY <1>8 DEF OnClientRegistered
  <1>9. ASSUME NEW k \in Conns, Publish(k) PROVE LossIsReported'
    BY <1>9 DEF Publish
  <1>10. ASSUME NEW k \in Conns, Welcome(k) PROVE LossIsReported'
    BY <1>10 DEF Welcome
  <1>11. ASSUME NEW k \in Conns, ReadFails(k) PROVE LossIsReported'
    BY <1>11 DEF ReadFails
  <1>12. ASSUME NEW k \in Conns, Teardown(k) PROVE LossIsReported'
    <2>1. CASE clients[Id(k)] = k
      <3>1. /\ handler'[k].pc = "removed" /\ handler'[k].id = Id(k)
            /\ \A j \in Conns \ {k} : handler'[j] = handler[j]
        BY <1>12, <2>1 DEF Teardown
      <3>2. \A c \in Clients \ {Id(k)} : clients'[c] = clients[c] /\ registry'[c] = registry[c]
        BY <1>12, <2>1 DEF Teardown
      <3>3. selectedIDs' = selectedIDs /\ telling' = telling /\ At(k, "teardown")
        BY <1>12 DEF Teardown
      <3> SUFFICES ASSUME NEW c \in selectedIDs
                   PROVE  \/ clients'[c] # NoConn
                          \/ \E j \in Conns : handler'[j].id = c /\ handler'[j].pc \in {"publish", "removed"}
                          \/ telling = c
        BY <3>3
      <3>4. CASE c = Id(k)
        BY <3>1, <3>4
      <3>5. CASE c # Id(k)
        <4>1. clients'[c] = clients[c]
          BY <3>2, <3>5
        <4>2. ASSUME NEW j \in Conns, handler[j].id = c, handler[j].pc \in {"publish", "removed"}
              PROVE  handler'[j].id = c /\ handler'[j].pc \in {"publish", "removed"}
          BY <3>1, <3>3, <4>2
        <4> QED BY <4>1, <4>2
      <3> QED BY <3>4, <3>5
    <2>2. CASE clients[Id(k)] # k
      BY <1>12, <2>2, SMTT(30) DEF Teardown
    <2> QED BY <2>1, <2>2
  <1>13. ASSUME NEW k \in Conns, OnClientRemoved(k) PROVE LossIsReported'
    BY <1>13 DEF OnClientRemoved
  <1>14. CASE Prune
    BY <1>14 DEF Prune
  <1>15. ASSUME NEW c \in Clients, ClosePruned(c) PROVE LossIsReported'
    BY <1>15 DEF ClosePruned
  <1>16. CASE TellPruned
    BY <1>16 DEF TellPruned
  <1>17. CASE SetConfig
    BY <1>17 DEF SetConfig, Send
  <1>18. CASE UNCHANGED vars
    BY <1>18 DEF vars, server, client
  <1> QED
    BY <1>1, <1>2, <1>3, <1>4, <1>5, <1>6, <1>7, <1>8, <1>9, <1>10,
       <1>11, <1>12, <1>13, <1>14, <1>15, <1>16, <1>17, <1>18
    DEF Next, HandlerNext, ClientNext, PrunerNext

\* When all calls are over the orchestrator has selected nobody who is not
\* connected, in whatever order joins and losses were reported to it.
THEOREM SelectionIsConnected == Spec => []SelectedAreConnected
  <1>1. TypeInv /\ LossIsReported => SelectedAreConnected
    BY SessionsAssumption
    DEF TypeInv, TypeOK, LossIsReported, SelectedAreConnected, Quiet
  <1> QED BY <1>1, AlwaysTypeInv, InitLossIsReported, NextLossIsReported, PTL DEF Spec

-----------------------------------------------------------------------------
(***************************************************************************)
(* Who is registered.  As long as nothing was pruned, an entry without a   *)
(* connection has a handler that is about to publish one.                  *)
(***************************************************************************)
EntryIsPublished ==
    ~pruned =>
        /\ gone = {}
        /\ telling = NoClient
        /\ \A c \in Registered :
              \/ clients[c] # NoConn
              \/ \E k \in Conns : Id(k) = c /\ handler[k].pc \in {"notify", "publish"}

LEMMA InitEntryIsPublished == Init => EntryIsPublished
  BY SessionsAssumption DEF Init, EntryIsPublished, Id, Registered

LEMMA NextEntryIsPublished ==
    TypeInv /\ EntryIsPublished /\ [Next]_vars => EntryIsPublished'
  <1> SUFFICES ASSUME TypeInv, EntryIsPublished, [Next]_vars PROVE EntryIsPublished'
    OBVIOUS
  <1> USE SessionsAssumption DEF EntryIsPublished, Id, Registered, TypeInv, TypeOK, HandlersOK,
      At, Goto, Return, Hangup
  <1>1. ASSUME NEW c \in Clients, NEW k \in Conns, Dial(c, k) PROVE EntryIsPublished'
    <2>1. /\ At(k, "closed")
          /\ \A j \in Conns \ {k} : handler'[j] = handler[j]
      BY <1>1 DEF Dial
    <2> QED BY <1>1, <2>1 DEF Dial
  <1>2. ASSUME NEW c \in Clients, SessionEnds(c) PROVE EntryIsPublished'
    BY <1>2 DEF SessionEnds, server
  <1>3. ASSUME NEW c \in Clients, Crash(c) PROVE EntryIsPublished'
    BY <1>3 DEF Crash, server
  <1>4. ASSUME NEW c \in Clients, Receive(c) PROVE EntryIsPublished'
    BY <1>4 DEF Receive, server
  <1>5. ASSUME NEW k \in Conns, ReadConfig(k) PROVE EntryIsPublished'
    BY <1>5 DEF ReadConfig
  <1>6. ASSUME NEW k \in Conns, NeverRegisters(k) PROVE EntryIsPublished'
    BY <1>6 DEF NeverRegisters
  <1>7. ASSUME NEW k \in Conns, Upsert(k) PROVE EntryIsPublished'
    BY <1>7 DEF Upsert
  <1>8. ASSUME NEW k \in Conns, OnClientRegistered(k) PROVE EntryIsPublished'
    BY <1>8 DEF OnClientRegistered
  <1>9. ASSUME NEW k \in Conns, Publish(k) PROVE EntryIsPublished'
    BY <1>9 DEF Publish
  <1>10. ASSUME NEW k \in Conns, Welcome(k) PROVE EntryIsPublished'
    BY <1>10 DEF Welcome
  <1>11. ASSUME NEW k \in Conns, ReadFails(k) PROVE EntryIsPublished'
    BY <1>11 DEF ReadFails
  <1>12. ASSUME NEW k \in Conns, Teardown(k) PROVE EntryIsPublished'
    <2>1. /\ At(k, "teardown")
          /\ \A j \in Conns \ {k} : handler'[j] = handler[j]
      BY <1>12 DEF Teardown
    <2>2. ASSUME ~pruned', NEW c \in Registered', clients'[c] = NoConn
          PROVE  \E j \in Conns : Id(j)' = c /\ handler'[j].pc \in {"notify", "publish"}
      <3>1. c \in Registered /\ clients[c] = NoConn
        BY <1>12, <2>2 DEF Teardown
      <3>2. PICK j \in Conns : Id(j) = c /\ handler[j].pc \in {"notify", "publish"}
        BY <1>12, <2>2, <3>1 DEF Teardown
      <3> QED BY <2>1, <3>2
    <2> QED BY <1>12, <2>2 DEF Teardown
  <1>13. ASSUME NEW k \in Conns, OnClientRemoved(k) PROVE EntryIsPublished'
    BY <1>13 DEF OnClientRemoved
  <1>14. CASE Prune
    BY <1>14 DEF Prune
  <1>15. ASSUME NEW c \in Clients, ClosePruned(c) PROVE EntryIsPublished'
    BY <1>15 DEF ClosePruned
  <1>16. CASE TellPruned
    BY <1>16 DEF TellPruned
  <1>17. CASE SetConfig
    BY <1>17 DEF SetConfig, Send
  <1>18. CASE UNCHANGED vars
    BY <1>18 DEF vars, server, client
  <1> QED
    BY <1>1, <1>2, <1>3, <1>4, <1>5, <1>6, <1>7, <1>8, <1>9, <1>10,
       <1>11, <1>12, <1>13, <1>14, <1>15, <1>16, <1>17, <1>18
    DEF Next, HandlerNext, ClientNext, PrunerNext

\* When all calls are over and nothing was pruned, every entry of the registry
\* has a connection: teardown leaves none behind.
THEOREM EntriesAreConnected == Spec => []NoAbandonedEntry
  <1>1. EntryIsPublished => NoAbandonedEntry
    BY DEF EntryIsPublished, NoAbandonedEntry, Quiet
  <1> QED BY <1>1, AlwaysTypeInv, InitEntryIsPublished, NextEntryIsPublished, PTL
             DEF Spec
-----------------------------------------------------------------------------
(***************************************************************************)
(* The pushes to the browsers                                              *)
(*                                                                         *)
(* About UIPush, the other component of the server: for any browsers, any  *)
(* number of goroutines that could run flushUI, and any pause.             *)
(***************************************************************************)

(***************************************************************************)
(* Types                                                                   *)
(***************************************************************************)
FlusherStates == [pc : {"none", "top", "snapshot", "subs", "write", "sleep"},
                  snap : Versions, subs : SUBSET Browsers, slept : 0..Pause]

LEMMA Beginnings ==
    /\ 0 \in Versions
    /\ 0 \in 0..Pause
    /\ Pause \in 0..Pause
    /\ Nobody \in FlusherStates
  BY PushAssumption DEF Versions, Nobody, FlusherStates

LEMMA InitPushTypeOK == PushInit => PushTypeOK
  <1> SUFFICES ASSUME PushInit PROVE PushTypeOK
    OBVIOUS
  <1>1. flusher \in [Flushers -> FlusherStates]
    BY Beginnings DEF PushInit
  <1>2. /\ uiHandler \in [Browsers -> [pc : {"none", "snapshot", "write", "read"},
                                      snap : Versions]]
        /\ shown \in [Browsers -> Versions]
    BY Beginnings DEF PushInit
  <1> QED BY Beginnings, <1>1, <1>2 DEF PushInit, PushTypeOK, FlusherStates

LEMMA TickTypeOK ==
    ASSUME PushTypeOK, Tick
    PROVE  PushTypeOK'
  <1> DEFINE next(f) ==
        [flusher[f] EXCEPT !.slept =
            IF FlusherAt(f, "sleep") /\ @ < Pause THEN @ + 1 ELSE @]
  <1>1. flusher \in [Flushers -> FlusherStates] /\ Pause \in Nat
    BY PushAssumption DEF PushTypeOK, FlusherStates
  <1>2. ASSUME NEW f \in Flushers PROVE next(f) \in FlusherStates
    <2>1. flusher[f] \in FlusherStates /\ flusher[f].slept \in 0..Pause
      BY <1>1 DEF FlusherStates
    <2> QED BY <1>1, <2>1 DEF FlusherStates
  <1>3. flusher' = [f \in Flushers |-> next(f)]
    BY DEF Tick
  <1>4. flusher' \in [Flushers -> FlusherStates]
    <2> HIDE DEF next
    <2> QED BY <1>2, <1>3
  <1>5. age' \in 0..Pause
    BY PushAssumption DEF PushTypeOK, Tick
  <1> QED BY <1>4, <1>5 DEF Tick, PushTypeOK, browsers, FlusherStates

LEMMA RequestTypeOK ==
    ASSUME PushTypeOK, requestUI
    PROVE  PushTypeOK'
  <1>1. flusher \in [Flushers -> FlusherStates]
    BY DEF PushTypeOK, FlusherStates
  <1>2. /\ flusher' \in [Flushers -> FlusherStates]
        /\ uiFlushing' \in BOOLEAN
    <2>1. CASE \E f \in Flushers : FlusherGoto(f, "top") /\ uiFlushing' = TRUE
      <3> PICK f \in Flushers : FlusherGoto(f, "top") /\ uiFlushing' = TRUE
        BY <2>1
      <3> DEFINE new == [flusher[f] EXCEPT !.pc = "top"]
      <3>1. new \in FlusherStates
        <4>1. flusher[f] \in FlusherStates
          BY <1>1
        <4> QED BY <4>1 DEF FlusherStates
      <3>2. flusher' = [flusher EXCEPT ![f] = new]
        BY DEF FlusherGoto
      <3> HIDE DEF new
      <3> QED BY <1>1, <3>1, <3>2
    <2>2. CASE UNCHANGED <<uiFlushing, flusher>>
      BY <1>1, <2>2 DEF PushTypeOK
    <2> QED BY <2>1, <2>2 DEF requestUI
  <1>3. /\ uiPending' \in BOOLEAN
        /\ UNCHANGED <<version, age, browsers>>
    BY DEF requestUI
  <1> QED BY <1>2, <1>3 DEF PushTypeOK, browsers, FlusherStates

\* A goroutine moves to another of its states.
LEMMA FlusherMoves ==
    ASSUME PushTypeOK, NEW f \in Flushers, NEW new \in FlusherStates,
           flusher' = [flusher EXCEPT ![f] = new],
           UNCHANGED <<version, uiPending, uiFlushing, age, uiSubs, uiHandler>>,
           uiOpen' \subseteq uiOpen,
           shown' \in [Browsers -> Versions]
    PROVE  PushTypeOK'
  <1>1. flusher' \in [Flushers -> FlusherStates]
    BY DEF PushTypeOK, FlusherStates
  <1> QED BY <1>1 DEF PushTypeOK, FlusherStates

LEMMA NextPushTypeOK == PushTypeOK /\ [PushNext]_pushVars => PushTypeOK'
  <1> SUFFICES ASSUME PushTypeOK, [PushNext]_pushVars PROVE PushTypeOK'
    OBVIOUS
  <1> USE PushAssumption
  <1>1. CASE Change
    BY <1>1 DEF Change, PushTypeOK, Versions, throttle, browsers
  <1>2. CASE Tick
    BY <1>2, TickTypeOK
  <1>3. CASE requestUI
    BY <1>3, RequestTypeOK
  <1>4. ASSUME NEW f \in Flushers, FlusherNext(f) PROVE PushTypeOK'
    <2>0. /\ flusher[f] \in FlusherStates
          /\ version \in Versions /\ uiSubs \in SUBSET Browsers
          /\ uiOpen \in SUBSET Browsers
          /\ shown \in [Browsers -> Versions]
      BY DEF PushTypeOK, FlusherStates
    <2>1. CASE BeginPush(f)
      <3> DEFINE new == [flusher[f] EXCEPT !.pc = "snapshot"]
      <3>1. new \in FlusherStates
        BY <2>0 DEF FlusherStates
      <3>2. flusher' = [flusher EXCEPT ![f] = new]
        BY <2>1 DEF BeginPush, FlusherGoto
      <3>3. /\ uiPending' = FALSE /\ age' = 0
            /\ UNCHANGED <<version, uiFlushing, browsers>>
        BY <2>1 DEF BeginPush
      <3> HIDE DEF new
      <3>4. flusher' \in [Flushers -> FlusherStates]
        BY <3>1, <3>2 DEF PushTypeOK, FlusherStates
      <3> QED BY <3>3, <3>4, Beginnings DEF PushTypeOK, FlusherStates, browsers
    <2>2. CASE TakeSnapshot(f)
      <3> DEFINE new == [flusher[f] EXCEPT !.pc = "subs", !.snap = version]
      <3>1. new \in FlusherStates
        BY <2>0 DEF FlusherStates
      <3>2. flusher' = [flusher EXCEPT ![f] = new] /\ UNCHANGED <<version, throttle, browsers>>
        BY <2>2 DEF TakeSnapshot
      <3> HIDE DEF new
      <3> QED BY <2>0, <3>1, <3>2, FlusherMoves DEF throttle, browsers
    <2>3. CASE ReadSubs(f)
      <3> DEFINE new == [flusher[f] EXCEPT !.pc = "write", !.subs = uiSubs]
      <3>1. new \in FlusherStates
        BY <2>0 DEF FlusherStates
      <3>2. flusher' = [flusher EXCEPT ![f] = new] /\ UNCHANGED <<version, throttle, browsers>>
        BY <2>3 DEF ReadSubs
      <3> HIDE DEF new
      <3> QED BY <2>0, <3>1, <3>2, FlusherMoves DEF throttle, browsers
    <2>4. ASSUME NEW b \in Browsers, WriteTo(f, b) PROVE PushTypeOK'
      <3> DEFINE new == [flusher[f] EXCEPT !.subs = @ \ {b}]
      <3>1. new \in FlusherStates
        BY <2>0 DEF FlusherStates
      <3>2. flusher' = [flusher EXCEPT ![f] = new] /\ uiOpen' \subseteq uiOpen
        BY <2>4 DEF WriteTo
      <3>3. shown' \in [Browsers -> Versions]
        BY <2>0, <2>4 DEF WriteTo, FlusherStates
      <3>4. UNCHANGED <<version, throttle, uiSubs, uiHandler>>
        BY <2>4 DEF WriteTo
      <3> HIDE DEF new
      <3> QED BY <3>1, <3>2, <3>3, <3>4, FlusherMoves DEF throttle
    <2>5. CASE PushAgain(f)
      <3> DEFINE new == [flusher[f] EXCEPT !.pc = "sleep", !.slept = 0]
      <3>1. new \in FlusherStates
        BY <2>0, Beginnings DEF FlusherStates
      <3>2. flusher' = [flusher EXCEPT ![f] = new] /\ UNCHANGED <<version, throttle, browsers>>
        BY <2>5 DEF PushAgain
      <3> HIDE DEF new
      <3> QED BY <2>0, <3>1, <3>2, FlusherMoves DEF throttle, browsers
    <2>6. CASE EndPush(f)
      BY <2>6, Beginnings DEF EndPush, PushTypeOK, FlusherStates, browsers
    <2>7. CASE WakeUp(f)
      BY <2>7 DEF WakeUp, PushTypeOK, FlusherGoto, throttle, browsers
    <2> QED BY <1>4, <2>1, <2>2, <2>3, <2>4, <2>5, <2>6, <2>7 DEF FlusherNext
  <1>5. ASSUME NEW b \in Browsers, Subscribe(b) \/ HandlerStep(b) \/ Break(b)
        PROVE  PushTypeOK'
    <2>1. CASE Subscribe(b)
      BY <2>1 DEF Subscribe, PushTypeOK, Versions, throttle
    <2>2. CASE OwnSnapshot(b)
      BY <2>2 DEF OwnSnapshot, PushTypeOK, throttle
    <2>3. CASE WriteOwn(b)
      BY <2>3 DEF WriteOwn, PushTypeOK, throttle
    <2>4. CASE Unsubscribe(b)
      BY <2>4 DEF Unsubscribe, PushTypeOK, Versions, throttle
    <2>5. CASE Break(b)
      BY <2>5 DEF Break, PushTypeOK, throttle
    <2> QED BY <1>5, <2>1, <2>2, <2>3, <2>4, <2>5 DEF HandlerStep
  <1>6. CASE UNCHANGED pushVars
    BY <1>6 DEF pushVars, throttle, browsers, PushTypeOK
  <1> QED BY <1>1, <1>2, <1>3, <1>4, <1>5, <1>6 DEF PushNext

\* Every variable keeps its type.
THEOREM PushTypeCorrect ==
    PushSpec => []PushTypeOK
  BY InitPushTypeOK, NextPushTypeOK, PTL DEF PushSpec

-----------------------------------------------------------------------------
(***************************************************************************)
(* Pushes                                                                  *)
(***************************************************************************)

\* One goroutine at most runs flushUI, and the flag is up while it does.
Alone ==
    \A f \in Flushers : ~FlusherAt(f, "none") =>
        /\ uiFlushing
        /\ \A g \in Flushers : ~FlusherAt(g, "none") => g = f

\* It begins a push when half a second has gone by since the latest push, and
\* sleeps no longer than that.
Waited ==
    \A f \in Flushers : /\ FlusherAt(f, "top") => age = Pause
                        /\ FlusherAt(f, "sleep") => flusher[f].slept <= age

PushInv == PushTypeOK /\ Alone /\ Waited

LEMMA InitPushInv == PushInit => PushInv
  BY InitPushTypeOK DEF PushInit, PushInv, Alone, Waited, FlusherAt, Nobody

LEMMA NextPushInv == PushInv /\ [PushNext]_pushVars => PushInv'
  <1> SUFFICES ASSUME PushInv, [PushNext]_pushVars PROVE Alone' /\ Waited'
    BY NextPushTypeOK DEF PushInv
  <1> USE PushAssumption DEF PushInv, PushTypeOK, FlusherAt
  <1>1. CASE Change
    BY <1>1 DEF Change, Alone, Waited, throttle
  <1>2. CASE Tick
    <2>1. \A f \in Flushers : flusher'[f].pc = flusher[f].pc
      BY <1>2 DEF Tick
    <2>2. Alone'
      BY <1>2, <2>1 DEF Tick, Alone
    <2>3. ASSUME NEW f \in Flushers
          PROVE  /\ flusher'[f].pc = "top" => age' = Pause
                 /\ flusher'[f].pc = "sleep" => flusher'[f].slept <= age'
      <3>1. CASE flusher[f].pc = "top"
        BY <1>2, <2>1, <3>1 DEF Tick, Waited
      <3>2. CASE flusher[f].pc = "sleep"
        <4>1. flusher[f].slept <= age /\ flusher[f].slept \in 0..Pause
          BY <3>2 DEF Waited
        <4>2. flusher'[f].slept = IF flusher[f].slept < Pause
                                  THEN flusher[f].slept + 1 ELSE flusher[f].slept
          BY <1>2, <3>2 DEF Tick
        <4> QED BY <1>2, <2>1, <3>2, <4>1, <4>2 DEF Tick
      <3> QED BY <2>1, <3>1, <3>2
    <2> QED BY <2>2, <2>3 DEF Waited
  <1>3. CASE requestUI
    BY <1>3 DEF requestUI, FlusherGoto, Alone, Waited
  <1>4. ASSUME NEW f \in Flushers, FlusherNext(f) PROVE Alone' /\ Waited'
    <2>1. CASE BeginPush(f)
      BY <2>1 DEF BeginPush, FlusherGoto, Alone, Waited
    <2>2. CASE TakeSnapshot(f)
      BY <2>2 DEF TakeSnapshot, Alone, Waited, throttle
    <2>3. CASE ReadSubs(f)
      BY <2>3 DEF ReadSubs, Alone, Waited, throttle
    <2>4. ASSUME NEW b \in Browsers, WriteTo(f, b) PROVE Alone' /\ Waited'
      BY <2>4 DEF WriteTo, Alone, Waited, throttle
    <2>5. CASE PushAgain(f)
      BY <2>5 DEF PushAgain, Alone, Waited, throttle
    <2>6. CASE EndPush(f)
      BY <2>6 DEF EndPush, AtCheck, Nobody, Alone, Waited
    <2>7. CASE WakeUp(f)
      <3>1. /\ FlusherAt(f, "sleep") /\ flusher[f].slept = Pause
            /\ flusher'[f].pc = "top"
            /\ \A g \in Flushers \ {f} : flusher'[g] = flusher[g]
            /\ UNCHANGED <<age, uiFlushing>>
        BY <2>7 DEF WakeUp, FlusherGoto, throttle
      <3>2. \A g \in Flushers : flusher'[g].pc # "none" => flusher[g].pc # "none"
        BY <3>1
      <3>3. Alone'
        BY <3>1, <3>2 DEF Alone
      <3>4. age = Pause
        BY <3>1 DEF Waited
      <3>5. Waited'
        BY <3>1, <3>4 DEF Waited
      <3> QED BY <3>3, <3>5
    <2> QED BY <1>4, <2>1, <2>2, <2>3, <2>4, <2>5, <2>6, <2>7 DEF FlusherNext
  <1>5. ASSUME NEW b \in Browsers, Subscribe(b) \/ HandlerStep(b) \/ Break(b)
        PROVE  Alone' /\ Waited'
    BY <1>5 DEF Subscribe, HandlerStep, OwnSnapshot, WriteOwn, Unsubscribe,
       Break,
                Alone, Waited, throttle
  <1>6. CASE UNCHANGED pushVars
    BY <1>6 DEF pushVars, throttle, Alone, Waited
  <1> QED BY <1>1, <1>2, <1>3, <1>4, <1>5, <1>6 DEF PushNext

\* Half a second lies between the beginnings of two pushes, whoever starts them:
\* flushUI is run by one goroutine at a time, and whether that was started by a
\* request or goes on after a sleep, the latest push is that long ago.
THEOREM PushesSpaced ==
    PushSpec => PushesAreSpaced
  <1>1. Waited =>
            \A f \in Flushers :
                FlusherAt(f, "top") /\ flusher'[f].pc = "snapshot" => age = Pause
    BY DEF Waited
  <1> QED BY <1>1, InitPushInv, NextPushInv, PTL DEF PushSpec, PushesAreSpaced, PushInv
=============================================================================
