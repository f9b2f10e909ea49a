----------------------------- MODULE AgentProofs ------------------------------
(***************************************************************************)
(* Proofs about Agent, for any capacity of the queue and any number of     *)
(* sessions, commands and stops.                                           *)
(***************************************************************************)
EXTENDS Agent, TLAPS

-----------------------------------------------------------------------------
(***************************************************************************)
(* Types                                                                   *)
(***************************************************************************)
MainStates == [pc : MainPCs, cut : Commands \cup {None}, say : Statuses]
LoopStates == [pc : LoopPCs, cmd : Commands \cup {None}, cut : Commands \cup {None}]

LEMMA Numbers ==
    /\ QueueCap \in Nat /\ QueueCap > 0
    /\ MaxSessions \in Nat /\ MaxCommands \in Nat /\ MaxStops \in Nat
    /\ Sessions \subseteq Nat /\ Commands \subseteq Nat
    /\ 0 \notin Sessions /\ None \notin Commands /\ None = 0
    /\ 0 \in 0..MaxCommands /\ 0 \in 0..MaxStops
  BY AgentAssumption DEF Sessions, Commands, None

\* A loop that is past its select has a command, and so has a full queue.
LoopsHaveCommands ==
    \A l \in Sessions : loop[l].pc \notin {"none", "select", "exit"} => loop[l].cmd # None

PendingIsReceived == MainAt("full") \/ MainAt("put") => received > 0

\* The main goroutine reads in a session only.
ReadingInSession == main.pc \notin {"dial", "end", "endCancel"} => session # 0

TypeInv == TypeOK /\ LoopsHaveCommands /\ PendingIsReceived /\ ReadingInSession

LEMMA InitTypeInv == Init => TypeInv
  <1> SUFFICES ASSUME Init PROVE TypeInv
    OBVIOUS
  <1>1. main \in MainStates /\ loop \in [Sessions -> LoopStates]
    BY DEF Init, MainStates, LoopStates, MainPCs, LoopPCs, Statuses
  <1>2. cmdCh \in Seq(Commands) /\ Len(cmdCh) <= QueueCap /\ begun \in Seq(Commands)
    BY Numbers DEF Init
  <1> QED BY <1>1, <1>2, Numbers
          DEF Init, TypeInv, TypeOK, LoopsHaveCommands, PendingIsReceived, ReadingInSession, MainAt,
              MainStates, LoopStates, Statuses

\* Loop l moves to the state `new'.
LEMMA LoopMoves ==
    ASSUME TypeInv, NEW l \in Sessions, NEW new \in LoopStates,
           loop' = [loop EXCEPT ![l] = new],
           new.pc \notin {"none", "select", "exit"} => new.cmd # None
    PROVE  /\ loop' \in [Sessions -> LoopStates]
           /\ LoopsHaveCommands'
  <1>1. loop \in [Sessions -> LoopStates]
    BY DEF TypeInv, TypeOK, LoopStates
  <1> QED BY <1>1 DEF TypeInv, LoopsHaveCommands

LEMMA LoopGoes ==
    ASSUME TypeInv, NEW l \in Sessions, NEW pc \in LoopPCs, LoopGoto(l, pc),
           pc \notin {"none", "select", "exit"} => loop[l].cmd # None
    PROVE  /\ loop' \in [Sessions -> LoopStates]
           /\ LoopsHaveCommands'
  <1>1. loop \in [Sessions -> LoopStates]
    BY DEF TypeInv, TypeOK, LoopStates
  <1> DEFINE new == [loop[l] EXCEPT !.pc = pc]
  <1>2. loop[l] \in LoopStates
    BY <1>1
  <1>3. new \in LoopStates /\ new.pc = pc /\ new.cmd = loop[l].cmd
    BY <1>2 DEF LoopStates
  <1>4. loop' = [loop EXCEPT ![l] = new]
    BY <1>1 DEF LoopGoto
  <1> HIDE DEF new
  <1> QED BY <1>3, <1>4, LoopMoves

\* The same with a new command, or something new to cancel.
LEMMA LoopTurns ==
    ASSUME TypeInv, NEW l \in Sessions, NEW pc \in LoopPCs,
           NEW cmd \in Commands,
           loop' = [loop EXCEPT ![l].pc = pc, ![l].cmd = cmd]
    PROVE  /\ loop' \in [Sessions -> LoopStates]
           /\ LoopsHaveCommands'
  <1>1. loop \in [Sessions -> LoopStates]
    BY DEF TypeInv, TypeOK, LoopStates
  <1> DEFINE new == [loop[l] EXCEPT !.pc = pc, !.cmd = cmd]
  <1>2. loop[l] \in LoopStates
    BY <1>1
  <1>3. new \in LoopStates /\ new.pc = pc /\ new.cmd = cmd /\ cmd # None
    BY <1>2, Numbers DEF LoopStates
  <1>4. loop' = [loop EXCEPT ![l] = new]
    BY <1>1
  <1> HIDE DEF new
  <1> QED BY <1>3, <1>4, LoopMoves

LEMMA LoopCuts ==
    ASSUME TypeInv, NEW l \in Sessions, NEW pc \in LoopPCs,
           NEW cut \in Commands \cup {None}, loop[l].cmd # None,
           loop' = [loop EXCEPT ![l].pc = pc, ![l].cut = cut]
    PROVE  /\ loop' \in [Sessions -> LoopStates]
           /\ LoopsHaveCommands'
  <1>1. loop \in [Sessions -> LoopStates]
    BY DEF TypeInv, TypeOK, LoopStates
  <1> DEFINE new == [loop[l] EXCEPT !.pc = pc, !.cut = cut]
  <1>2. loop[l] \in LoopStates
    BY <1>1
  <1>3. new \in LoopStates /\ new.pc = pc /\ new.cmd = loop[l].cmd
    BY <1>2 DEF LoopStates
  <1>4. loop' = [loop EXCEPT ![l] = new]
    BY <1>1
  <1> HIDE DEF new
  <1> QED BY <1>3, <1>4, LoopMoves

LEMMA NextTypeInv == TypeInv /\ [Next]_vars => TypeInv'
  <1> SUFFICES ASSUME TypeInv, [Next]_vars PROVE TypeInv'
    OBVIOUS
  <1> USE Numbers
  <1>0. main \in MainStates /\ loop \in [Sessions -> LoopStates]
    BY DEF TypeInv, TypeOK, MainStates, LoopStates
  <1>1. CASE DropOldest
    <2>1. cmdCh' \in Seq(Commands) /\ Len(cmdCh') <= QueueCap
      <3>1. CASE cmdCh = << >>
        BY <1>1, <3>1 DEF DropOldest, TypeInv, TypeOK
      <3>2. CASE cmdCh # << >>
        <4>1. cmdCh \in Seq(Commands) /\ Len(cmdCh) <= QueueCap /\ cmdCh' = Tail(cmdCh)
          BY <1>1, <3>2 DEF DropOldest, TypeInv, TypeOK
        <4> QED BY <3>2, <4>1
      <3> QED BY <3>1, <3>2
    <2> QED BY <1>1, <2>1
            DEF DropOldest, TypeInv, TypeOK, LoopsHaveCommands, PendingIsReceived, ReadingInSession, MainAt,
                MainGoto, MainPCs, context, ghosts
  <1>2. ASSUME NEW m \in Commands, cmdCh' = Append(cmdCh, m), Len(cmdCh) < QueueCap
        PROVE  cmdCh' \in Seq(Commands) /\ Len(cmdCh') <= QueueCap
    BY <1>2 DEF TypeInv, TypeOK
  <1>3. CASE PutCommand
    <2>1. received \in Commands
      BY <1>3 DEF PutCommand, TypeInv, TypeOK, PendingIsReceived, Commands
    <2> QED BY <1>2, <1>3, <2>1
            DEF PutCommand, TypeInv, TypeOK, LoopsHaveCommands, PendingIsReceived, ReadingInSession, MainAt,
                MainGoto, MainPCs, context, ghosts
  <1>4. CASE StopCancel \/ Cleanup \/ Report \/ EndTakesCancel \/ EndCancel
    <2>1. main' \in MainStates /\ main'.pc \notin {"full", "put"}
      BY <1>0, <1>4, ZenonT(40)
         DEF StopCancel, Cleanup, Report, EndTakesCancel, EndCancel, MainStates, MainPCs,
             Statuses, TypeInv, TypeOK
    <2>2. status' \in [what : Statuses, cmd : Commands \cup {None}]
      <3>1. main.say \in Statuses /\ received \in Commands \cup {None}
        BY <1>0 DEF MainStates, TypeInv, TypeOK, Commands
      <3> QED BY <1>4, <3>1
              DEF StopCancel, Cleanup, Report, EndTakesCancel, EndCancel, SendStatus,
                  TypeInv, TypeOK
    <2>3. runCancel' \in Commands \cup {None} /\ cancelled' \in SUBSET Commands
      <3>1. main.cut \in Commands \cup {None}
        BY <1>0 DEF MainStates
      <3> QED BY <1>4, <3>1
              DEF StopCancel, Cleanup, Report, EndTakesCancel, EndCancel, Cancel, TakeCancel,
                  context, TypeInv, TypeOK
    <2> QED BY <1>4, <2>1, <2>2, <2>3, ZenonT(40)
            DEF StopCancel, Cleanup, Report, EndTakesCancel, EndCancel, TypeInv, TypeOK,
                MainStates, LoopsHaveCommands, PendingIsReceived, ReadingInSession, MainAt, queueing, context,
                ghosts
  <1>5. CASE Connect
    <2>1. session + 1 \in Sessions
      BY <1>5 DEF Connect, TypeInv, TypeOK, Sessions
    <2>2. LoopGoto(session + 1, "select")
      BY <1>5 DEF Connect, LoopGoto
    <2>3. loop' \in [Sessions -> LoopStates] /\ LoopsHaveCommands'
      BY <2>1, <2>2, LoopGoes DEF LoopPCs
    <2> QED BY <1>5, <2>1, <2>3
            DEF Connect, TypeInv, TypeOK, LoopStates, PendingIsReceived, ReadingInSession, MainAt, MainGoto,
                MainPCs, queueing, context, ghosts
  <1>6. CASE RegisterFails \/ ReadWelcome \/ ReadFails
    <2>1. ended' \in SUBSET Sessions
      <3>1. ReadFails => session \in Sessions
        BY DEF ReadFails, TypeInv, TypeOK, ReadingInSession, MainAt
      <3> QED BY <1>6, <3>1
              DEF RegisterFails, ReadWelcome, ReadFails, TypeInv, TypeOK
    <2> QED BY <1>6, <2>1
       DEF RegisterFails, ReadWelcome, ReadFails, TypeInv, TypeOK, LoopsHaveCommands,
           PendingIsReceived, ReadingInSession, MainAt, MainGoto, MainPCs, Statuses,
           queueing, context, ghosts
  <1>7. CASE ReadCommand
    <2>1. received' \in 0..MaxCommands /\ received + 1 \in Commands /\ received' > 0
      BY <1>7 DEF ReadCommand, TypeInv, TypeOK, Commands
    <2> QED BY <1>2, <1>7, <2>1
            DEF ReadCommand, TypeInv, TypeOK, LoopsHaveCommands, PendingIsReceived, ReadingInSession, MainAt,
                MainGoto, MainPCs, context, ghosts
  <1>8. CASE ReadStop
    <2>1. stops' \in 0..MaxStops
      BY <1>8 DEF ReadStop, TypeInv, TypeOK
    <2>2. runCancel \in Commands \cup {None}
      BY DEF TypeInv, TypeOK
    <2>3. \A l \in Sessions : Underway(l) => loop[l].cmd \in Commands
      BY <1>0 DEF TypeInv, LoopsHaveCommands, Underway, LoopStates
    <2>4. atStop' \in SUBSET Commands
      BY <1>8, <2>3 DEF ReadStop
    <2> QED BY <1>8, <2>1, <2>2, <2>4
            DEF ReadStop, TypeInv, TypeOK, LoopsHaveCommands, PendingIsReceived, ReadingInSession, MainAt,
                MainPCs, TakeCancel, queueing
  <1>9. ASSUME NEW l \in Sessions,
               Exit(l) \/ TakeCommand(l) \/ LoopTakesCancel(l) \/ LoopCancels(l)
        PROVE  TypeInv'
    <2>0. /\ loop[l].cmd \in Commands \cup {None}
          /\ loop[l].cut \in Commands \cup {None}
          /\ runCancel \in Commands \cup {None}
      BY <1>0 DEF LoopStates, TypeInv, TypeOK
    <2>1. loop' \in [Sessions -> LoopStates] /\ LoopsHaveCommands'
      <3>1. CASE Exit(l)
        BY <3>1, LoopGoes DEF Exit, LoopPCs
      <3>2. CASE TakeCommand(l)
        <4>1. Head(cmdCh) \in Commands
          BY <3>2 DEF TakeCommand, TypeInv, TypeOK
        <4> QED BY <3>2, <4>1, LoopTurns DEF TakeCommand, LoopPCs
      <3>3. CASE LoopTakesCancel(l)
        <4>1. loop[l].cmd # None
          BY <3>3 DEF LoopTakesCancel, LoopAt, TypeInv, LoopsHaveCommands
        <4> QED BY <2>0, <3>3, <4>1, LoopCuts DEF LoopTakesCancel, LoopPCs
      <3>4. CASE LoopCancels(l)
        <4>1. loop[l].cmd # None
          BY <3>4 DEF LoopCancels, LoopAt, TypeInv, LoopsHaveCommands
        <4> QED BY <2>0, <3>4, <4>1, LoopCuts DEF LoopCancels, LoopPCs
      <3> QED BY <1>9, <3>1, <3>2, <3>3, <3>4
    <2>2. cmdCh' \in Seq(Commands) /\ Len(cmdCh') <= QueueCap
      <3>1. cmdCh \in Seq(Commands) /\ Len(cmdCh) <= QueueCap
        BY DEF TypeInv, TypeOK
      <3>2. cmdCh' = cmdCh \/ (cmdCh # << >> /\ cmdCh' = Tail(cmdCh))
        BY <1>9 DEF Exit, TakeCommand, LoopTakesCancel, LoopCancels, queueing
      <3> QED BY <3>1, <3>2
    <2>3. runCancel' \in Commands \cup {None} /\ cancelled' \in SUBSET Commands
      BY <1>9, <2>0 DEF Exit, TakeCommand, LoopTakesCancel, LoopCancels, TakeCancel,
         Cancel,
                        context, TypeInv, TypeOK
    <2> QED BY <1>9, <2>1, <2>2, <2>3
            DEF Exit, TakeCommand, LoopTakesCancel, LoopCancels, TypeInv, TypeOK, LoopStates,
                PendingIsReceived, ReadingInSession, MainAt, queueing, ghosts
  <1>10. ASSUME NEW l \in Sessions,
                \/ StoreCancel(l) \/ TellRunning(l) \/ BeginWrite(l) \/ EndWrite(l)
                \/ WorkEnds(l) \/ CheckContext(l) \/ TellIdle(l)
         PROVE  TypeInv'
    <2>0. loop[l].cmd \in Commands
      BY <1>0, <1>10 DEF StoreCancel, TellRunning, BeginWrite, EndWrite, WorkEnds,
              CheckContext, TellIdle, LoopAt, TypeInv, LoopsHaveCommands, LoopStates
    <2>1. loop' \in [Sessions -> LoopStates] /\ LoopsHaveCommands'
      <3>1. PICK pc \in LoopPCs : LoopGoto(l, pc)
        BY <1>10 DEF StoreCancel, TellRunning, BeginWrite, EndWrite, WorkEnds,
              CheckContext, TellIdle, LoopPCs
      <3> QED BY <2>0, <3>1, LoopGoes
    <2>2. runCancel' \in Commands \cup {None} /\ cancelled' \in SUBSET Commands
      BY <1>10, <2>0 DEF StoreCancel, TellRunning, BeginWrite, EndWrite, WorkEnds,
              CheckContext, TellIdle, Cancel, context, TypeInv, TypeOK
    <2>3. status' \in [what : Statuses, cmd : Commands \cup {None}] /\ begun' \in Seq(Commands)
      <3>1. status \in [what : Statuses, cmd : Commands \cup {None}] /\ begun \in Seq(Commands)
        BY DEF TypeInv, TypeOK
      <3>2. Append(begun, loop[l].cmd) \in Seq(Commands)
        BY <2>0, <3>1
      <3> QED BY <1>10, <2>0, <3>1, <3>2 DEF StoreCancel, TellRunning, BeginWrite,
                 EndWrite,
              WorkEnds, CheckContext, TellIdle, SendStatus, Statuses, ghosts
    <2>4. tree' \in BOOLEAN /\ UNCHANGED <<main, session, connected, welcomed, queueing, ended,
                                          stops, atStop>>
      BY <1>10 DEF StoreCancel, TellRunning, BeginWrite, EndWrite, WorkEnds,
         CheckContext,
              TellIdle, ghosts, TypeInv, TypeOK
    <2> QED BY <2>1, <2>2, <2>3, <2>4
            DEF TypeInv, TypeOK, LoopStates, PendingIsReceived, ReadingInSession,
            MainAt, queueing
  <1>11. CASE UNCHANGED vars
    BY <1>11 DEF vars, queueing, context, ghosts, TypeInv, TypeOK, LoopsHaveCommands,
                 PendingIsReceived, ReadingInSession, MainAt
  <1> QED BY <1>1, <1>3, <1>4, <1>5, <1>6, <1>7, <1>8, <1>9, <1>10, <1>11
          DEF Next, MainNext, MainStep, LoopNext

LEMMA AlwaysTypeInv == Spec => []TypeInv
  BY InitTypeInv, NextTypeInv, PTL DEF Spec

\* Every variable keeps its type; the queue never exceeds its capacity.
THEOREM TypeCorrect == Spec => []TypeOK
  BY AlwaysTypeInv, PTL DEF TypeInv

-----------------------------------------------------------------------------
(***************************************************************************)
(* Sessions.  Of all sessions only the latest may not be over.             *)
(***************************************************************************)
SessionsInOrder ==
    /\ \A l \in Sessions : l < session => l \in ended
    /\ main.pc \in {"dial", "end", "endCancel"} /\ session # 0 => session \in ended
    /\ \A l \in Sessions : l > session => loop[l].pc = "none"

\* What a step changes of the loops: one of them, or none.
LEMMA OneLoopSteps ==
    ASSUME TypeInv, [Next]_vars
    PROVE  \/ UNCHANGED loop
           \/ Connect
           \/ \E l \in Sessions : /\ LoopNext(l)
                                  /\ loop[l].pc # "none"
                                  /\ \A k \in Sessions : k # l => loop'[k] = loop[k]
                                  /\ UNCHANGED <<main, session, connected, welcomed, ended>>
  <1>1. CASE UNCHANGED vars
    BY <1>1 DEF vars
  <1>2. CASE MainNext
    BY <1>2 DEF MainNext, MainStep, DropOldest, PutCommand, StopCancel, Cleanup, Report,
           EndTakesCancel, EndCancel, RegisterFails, ReadWelcome, ReadCommand,
           ReadStop, ReadFails
  <1>3. ASSUME NEW l \in Sessions, LoopNext(l)
        PROVE  /\ loop[l].pc # "none"
               /\ \A k \in Sessions : k # l => loop'[k] = loop[k]
               /\ UNCHANGED <<main, session, connected, welcomed, ended>>
    <2>1. loop[l].pc # "none" /\ UNCHANGED <<main, session, connected, welcomed, ended>>
      BY <1>3 DEF LoopNext, LoopAt, Exit, TakeCommand, LoopTakesCancel, LoopCancels,
             StoreCancel, TellRunning, BeginWrite, EndWrite, WorkEnds, CheckContext,
             TellIdle
    <2>2. \A k \in Sessions : k # l => loop'[k] = loop[k]
      BY <1>3 DEF LoopNext, Exit, TakeCommand, LoopTakesCancel, LoopCancels,
         StoreCancel,
             TellRunning, BeginWrite, EndWrite, WorkEnds, CheckContext, TellIdle, LoopGoto,
             TypeInv, TypeOK
    <2> QED BY <2>1, <2>2
  <1> QED BY <1>1, <1>2, <1>3 DEF Next

LEMMA NextSessionsInOrder ==
    ASSUME TypeInv, SessionsInOrder, [Next]_vars
    PROVE  SessionsInOrder'
  <1> USE Numbers
  <1>0. session \in Nat /\ \A l \in Sessions : l \in Nat
    BY DEF TypeInv, TypeOK
  <1>1. CASE Connect
    <2>1. /\ session' = session + 1 /\ ended' = ended /\ main'.pc = "read"
          /\ session # 0 => session \in ended
          /\ session + 1 \in Sessions
      BY <1>1 DEF Connect, MainAt, MainGoto, SessionsInOrder, TypeInv, TypeOK, Sessions
    <2>2. \A k \in Sessions : k # session + 1 => loop'[k] = loop[k]
      BY <1>1 DEF Connect, TypeInv, TypeOK
    <2> QED BY <1>0, <2>1, <2>2 DEF SessionsInOrder
  <1>2. CASE UNCHANGED loop /\ ~Connect
    <2>1. session' = session /\ ended \subseteq ended'
      BY <1>2 DEF Next, vars, MainNext, MainStep, DropOldest, PutCommand, StopCancel,
         Cleanup,
             Report, EndTakesCancel, EndCancel, RegisterFails, ReadWelcome, ReadCommand,
             ReadStop, ReadFails, LoopNext, Exit, TakeCommand, LoopTakesCancel, LoopCancels,
             StoreCancel, TellRunning, BeginWrite, EndWrite, WorkEnds, CheckContext,
             TellIdle
    <2>2. main'.pc \in {"dial", "end", "endCancel"}
              => main.pc \in {"dial", "end", "endCancel"} \/ session \in ended'
      <3>1. CASE UNCHANGED main
        BY <3>1
      <3>2. CASE MainNext
        <4>1. CASE MainStep
          BY <4>1 DEF MainStep, DropOldest, PutCommand, StopCancel, Cleanup, Report,
                 EndTakesCancel, EndCancel, MainAt, MainGoto, TypeInv, TypeOK
        <4> QED BY <1>2, <3>2, <4>1 DEF MainNext, RegisterFails, ReadWelcome,
                   ReadCommand,
                 ReadStop, ReadFails, MainAt, MainGoto, TypeInv, TypeOK
      <3>3. CASE \E l \in Sessions : LoopNext(l)
        BY <3>3 DEF LoopNext, Exit, TakeCommand, LoopTakesCancel, LoopCancels,
           StoreCancel,
               TellRunning, BeginWrite, EndWrite, WorkEnds, CheckContext, TellIdle
      <3> QED BY <3>1, <3>2, <3>3 DEF Next, vars
    <2> QED BY <1>2, <2>1, <2>2 DEF SessionsInOrder
  <1>3. ASSUME NEW l \in Sessions, loop[l].pc # "none",
               \A k \in Sessions : k # l => loop'[k] = loop[k],
               UNCHANGED <<main, session, connected, welcomed, ended>>
        PROVE  SessionsInOrder'
    BY <1>3 DEF SessionsInOrder
  <1> QED BY <1>1, <1>2, <1>3, OneLoopSteps

LEMMA AlwaysInOrder == Spec => [](TypeInv /\ SessionsInOrder)
  <1>1. Init => SessionsInOrder
    BY Numbers DEF Init, SessionsInOrder
  <1> QED BY <1>1, InitTypeInv, NextTypeInv, NextSessionsInOrder, PTL DEF Spec

\* At most one command is worked on under a context that is not cancelled, in
\* whatever way the loops of earlier sessions go on.
THEOREM WorkersAreOne == Spec => []OneLiveWorker
  <1>1. TypeInv /\ SessionsInOrder => OneLiveWorker
    <2> SUFFICES ASSUME TypeInv, SessionsInOrder,
                        NEW l \in Sessions, Underway(l), Live(l)
                 PROVE  l = session
      BY DEF OneLiveWorker
    <2>1. l \in Nat /\ session \in Nat
      BY Numbers DEF TypeInv, TypeOK
    <2> QED BY <2>1 DEF SessionsInOrder, Underway, Live
  <1> QED BY <1>1, AlwaysInOrder, PTL

-----------------------------------------------------------------------------
(***************************************************************************)
(* Room in the queue.  The loops take commands out of it, and put none in. *)
(***************************************************************************)
LEMMA NextPutNeverWaits ==
    ASSUME TypeInv, PutNeverWaits, [Next]_vars
    PROVE  PutNeverWaits'
  <1> SUFFICES ASSUME MainAt("put")' PROVE Len(cmdCh') < QueueCap
    BY DEF PutNeverWaits
  <1>0. cmdCh \in Seq(Commands) /\ Len(cmdCh) <= QueueCap /\ QueueCap \in Nat /\ QueueCap > 0
    BY Numbers DEF TypeInv, TypeOK
  <1>1. CASE DropOldest
    <2>1. CASE cmdCh = << >>
      BY <1>0, <1>1, <2>1 DEF DropOldest
    <2>2. CASE cmdCh # << >>
      <3>1. cmdCh' = Tail(cmdCh)
        BY <1>1, <2>2 DEF DropOldest
      <3> QED BY <1>0, <2>2, <3>1
    <2> QED BY <2>1, <2>2
  <1>2. ASSUME NEW l \in Sessions, TakeCommand(l) PROVE Len(cmdCh') < QueueCap
    <2>1. cmdCh # << >> /\ cmdCh' = Tail(cmdCh)
      BY <1>2 DEF TakeCommand
    <2> QED BY <1>0, <2>1
  <1>3. CASE MainAt("put") /\ UNCHANGED cmdCh
    BY <1>3 DEF PutNeverWaits
  <1>4. CASE MainNext
    <2>1. DropOldest
      BY <1>4 DEF MainNext, MainStep, PutCommand, StopCancel, Cleanup, Report,
         EndTakesCancel,
             EndCancel, Connect, RegisterFails, ReadWelcome, ReadCommand, ReadStop, ReadFails,
             MainAt, MainGoto, TypeInv, TypeOK
    <2> QED BY <1>1, <2>1
  <1>5. ASSUME NEW l \in Sessions, LoopNext(l) PROVE Len(cmdCh') < QueueCap
    BY <1>2, <1>3, <1>5 DEF LoopNext, Exit, LoopTakesCancel, LoopCancels, StoreCancel,
           TellRunning, BeginWrite, EndWrite, WorkEnds, CheckContext, TellIdle,
           queueing, MainAt
  <1>6. CASE UNCHANGED vars
    BY <1>3, <1>6 DEF vars, queueing, MainAt
  <1> QED BY <1>4, <1>5, <1>6 DEF Next

\* The main goroutine never waits for room in the queue.
THEOREM PutsAtOnce == Spec => []PutNeverWaits
  <1>1. Init => PutNeverWaits
    BY DEF Init, PutNeverWaits, MainAt
  <1> QED BY <1>1, AlwaysTypeInv, NextPutNeverWaits, PTL DEF Spec

-----------------------------------------------------------------------------
(***************************************************************************)
(* Order.  Commands move from the connection to the queue, to a loop, and  *)
(* to the list of those begun: each comes before all that are behind it.   *)
(***************************************************************************)
Members(q) == {q[i] : i \in DOMAIN q}
Increasing(q) == \A i, j \in DOMAIN q : i < j => q[i] < q[j]

LEMMA AppendMembers ==
    ASSUME NEW q \in Seq(Commands), NEW m \in Commands
    PROVE  /\ Members(Append(q, m)) = Members(q) \cup {m}
           /\ Increasing(q) /\ (\A x \in Members(q) : x < m) => Increasing(Append(q, m))
  <1> DEFINE r == Append(q, m)
  <1>1. /\ DOMAIN r = DOMAIN q \cup {Len(q) + 1}
        /\ r[Len(q) + 1] = m
        /\ \A i \in DOMAIN q : r[i] = q[i] /\ i \in Nat /\ i <= Len(q)
        /\ Len(q) \in Nat
    OBVIOUS
  <1> HIDE DEF r
  <1>2. Members(r) = Members(q) \cup {m}
    BY <1>1 DEF Members
  <1>3. ASSUME Increasing(q), \A x \in Members(q) : x < m PROVE Increasing(r)
    <2>1. \A i \in DOMAIN q : q[i] < m
      BY <1>3 DEF Members
    <2> QED BY <1>1, <1>3, <2>1 DEF Increasing
  <1> QED BY <1>2, <1>3 DEF r

LEMMA TailMembers ==
    ASSUME NEW q \in Seq(Commands), q # << >>
    PROVE  /\ Tail(q) \in Seq(Commands)
           /\ Head(q) \in Members(q) /\ Head(q) \in Commands
           /\ Members(Tail(q)) \subseteq Members(q)
           /\ Members(q) \subseteq Members(Tail(q)) \cup {Head(q)}
           /\ Increasing(q) => /\ Increasing(Tail(q))
                               /\ \A x \in Members(Tail(q)) : Head(q) < x
  <1>1. /\ Len(Tail(q)) = Len(q) - 1
        /\ \A i \in 1..Len(Tail(q)) : Tail(q)[i] = q[i + 1]
        /\ Len(q) \in Nat /\ DOMAIN q = 1..Len(q)
        /\ Tail(q) \in Seq(Commands) /\ DOMAIN Tail(q) = 1..Len(Tail(q))
        /\ Head(q) = q[1] /\ 1 \in DOMAIN q
    OBVIOUS
  <1>2. \A i \in DOMAIN Tail(q) : i + 1 \in DOMAIN q /\ Tail(q)[i] = q[i + 1] /\ i \in Nat /\ i > 0
    BY <1>1
  <1>3. \A i \in DOMAIN q : i = 1 \/ (i - 1 \in DOMAIN Tail(q) /\ Tail(q)[i - 1] = q[i])
    BY <1>1
  <1>4. /\ Members(Tail(q)) \subseteq Members(q)
        /\ Members(q) \subseteq Members(Tail(q)) \cup {Head(q)}
        /\ Head(q) \in Members(q)
    <2>1. ASSUME NEW x \in Members(Tail(q)) PROVE x \in Members(q)
      <3>1. PICK i \in DOMAIN Tail(q) : x = Tail(q)[i]
        BY <2>1 DEF Members
      <3>2. i + 1 \in DOMAIN q /\ x = q[i + 1]
        BY <1>2, <3>1
      <3> QED BY <3>2 DEF Members
    <2>2. ASSUME NEW x \in Members(q) PROVE x \in Members(Tail(q)) \cup {Head(q)}
      <3>1. PICK i \in DOMAIN q : x = q[i]
        BY <2>2 DEF Members
      <3>2. CASE i = 1
        BY <1>1, <3>1, <3>2
      <3>3. CASE i - 1 \in DOMAIN Tail(q) /\ Tail(q)[i - 1] = x
        BY <3>3 DEF Members
      <3> QED BY <1>3, <3>1, <3>2, <3>3
    <2>3. Head(q) \in Members(q)
      BY <1>1 DEF Members
    <2> QED BY <2>1, <2>2, <2>3
  <1>5. ASSUME Increasing(q) PROVE Increasing(Tail(q))
    BY <1>2, <1>5 DEF Increasing
  <1>6. ASSUME Increasing(q), NEW x \in Members(Tail(q)) PROVE Head(q) < x
    <2>1. PICK i \in DOMAIN Tail(q) : x = Tail(q)[i]
      BY <1>6 DEF Members
    <2> QED BY <1>1, <1>2, <1>6, <2>1 DEF Increasing
  <1>7. Head(q) \in Commands
    OBVIOUS
  <1> QED BY <1>1, <1>4, <1>5, <1>6, <1>7

\* x has left the queue: it comes before all that are in it or on their way.
Pending == MainAt("full") \/ MainAt("put")
Before(x) ==
    /\ x <= received
    /\ Pending => x < received
    /\ \A m \in Members(cmdCh) : x < m

QueueInOrder ==
    /\ Increasing(cmdCh)
    /\ \A m \in Members(cmdCh) : m <= received /\ (Pending => m < received)

\* How a step changes the queue and what is on its way to it.
Kept == UNCHANGED <<cmdCh, received>> /\ (Pending' => Pending)
PutNew == /\ received' = received + 1 /\ ~Pending'
          /\ cmdCh' = Append(cmdCh, received + 1)
KeptNew == received' = received + 1 /\ UNCHANGED cmdCh
PutOld == /\ Pending /\ ~Pending' /\ UNCHANGED received
          /\ cmdCh' = Append(cmdCh, received)
TakenOut == /\ UNCHANGED received /\ (Pending' => Pending)
            /\ cmdCh # << >> /\ cmdCh' = Tail(cmdCh)

LEMMA QueueSteps ==
    ASSUME TypeInv, [Next]_vars
    PROVE  Kept \/ PutNew \/ KeptNew \/ PutOld \/ TakenOut
  <1>1. CASE DropOldest
    BY <1>1 DEF DropOldest, Kept, TakenOut, Pending, MainAt
  <1>2. CASE PutCommand
    BY <1>2 DEF PutCommand, PutOld, Pending, MainAt, MainGoto, TypeInv, TypeOK
  <1>3. CASE ReadCommand
    BY <1>3 DEF ReadCommand, PutNew, KeptNew, Pending, MainAt, MainGoto, TypeInv, TypeOK
  <1>4. CASE MainNext /\ ~DropOldest /\ ~PutCommand /\ ~ReadCommand
    BY <1>4 DEF MainNext, MainStep, StopCancel, Cleanup, Report, EndTakesCancel,
       EndCancel,
           Connect, RegisterFails, ReadWelcome, ReadStop, ReadFails, queueing, Kept, Pending,
           MainAt, MainGoto, TypeInv, TypeOK
  <1>5. ASSUME NEW l \in Sessions, LoopNext(l) PROVE Kept \/ TakenOut
    BY <1>5 DEF LoopNext, Exit, TakeCommand, LoopTakesCancel, LoopCancels, StoreCancel,
           TellRunning, BeginWrite, EndWrite, WorkEnds, CheckContext, TellIdle, queueing, Kept,
           TakenOut, Pending, MainAt
  <1>6. CASE UNCHANGED vars
    BY <1>6 DEF vars, queueing, Kept, Pending, MainAt
  <1> QED BY <1>1, <1>2, <1>3, <1>4, <1>5, <1>6 DEF Next

LEMMA QueueIsNumbers ==
    ASSUME TypeInv
    PROVE  /\ cmdCh \in Seq(Commands) /\ Members(cmdCh) \subseteq Commands
           /\ received \in Nat
           /\ Pending => received \in Commands
           /\ \A m \in Commands : m \in Nat
  <1>1. cmdCh \in Seq(Commands) /\ received \in 0..MaxCommands
    BY DEF TypeInv, TypeOK
  <1>2. Members(cmdCh) \subseteq Commands
    BY <1>1 DEF Members
  <1>3. Pending => received > 0
    BY DEF TypeInv, PendingIsReceived, Pending
  <1> QED BY <1>1, <1>2, <1>3, Numbers DEF Commands

LEMMA NextBefore ==
    ASSUME TypeInv, TypeInv', [Next]_vars, NEW x \in Nat, Before(x)
    PROVE  Before(x)'
  <1> USE QueueIsNumbers
  <1>1. CASE Kept
    BY <1>1 DEF Kept, Before
  <1>2. CASE PutNew
    <2>1. received + 1 \in Commands
      BY <1>2 DEF PutNew, TypeInv, TypeOK, Commands
    <2>2. Members(cmdCh') = Members(cmdCh) \cup {received + 1}
      BY <1>2, <2>1, AppendMembers DEF PutNew
    <2> QED BY <1>2, <2>2 DEF PutNew, Before
  <1>3. CASE KeptNew
    BY <1>3 DEF KeptNew, Before
  <1>4. CASE PutOld
    <2>1. Members(cmdCh') = Members(cmdCh) \cup {received}
      BY <1>4, AppendMembers DEF PutOld
    <2> QED BY <1>4, <2>1 DEF PutOld, Before
  <1>5. CASE TakenOut
    <2>1. Members(cmdCh') \subseteq Members(cmdCh)
      BY <1>5, TailMembers DEF TakenOut
    <2> QED BY <1>5, <2>1 DEF TakenOut, Before
  <1> QED BY <1>1, <1>2, <1>3, <1>4, <1>5, QueueSteps

LEMMA NextQueueInOrder ==
    ASSUME TypeInv, TypeInv', [Next]_vars, QueueInOrder
    PROVE  /\ QueueInOrder'
           /\ TakenOut => \A x \in {Head(cmdCh)} : x \in Commands /\ Before(x)'
  <1> USE QueueIsNumbers
  <1>1. ASSUME Kept PROVE QueueInOrder'
    BY <1>1 DEF Kept, QueueInOrder
  <1>2. ASSUME PutNew PROVE QueueInOrder'
    <2>1. received + 1 \in Commands
      BY <1>2 DEF PutNew, TypeInv, TypeOK, Commands
    <2>2. \A m \in Members(cmdCh) : m < received + 1
      BY DEF QueueInOrder
    <2>3. Members(cmdCh') = Members(cmdCh) \cup {received + 1} /\ Increasing(cmdCh')
      BY <1>2, <2>1, <2>2, AppendMembers DEF PutNew, QueueInOrder
    <2> QED BY <1>2, <2>3 DEF PutNew, QueueInOrder
  <1>3. ASSUME KeptNew PROVE QueueInOrder'
    BY <1>3 DEF KeptNew, QueueInOrder
  <1>4. ASSUME PutOld PROVE QueueInOrder'
    <2>1. Members(cmdCh') = Members(cmdCh) \cup {received} /\ Increasing(cmdCh')
      BY <1>4, AppendMembers DEF PutOld, QueueInOrder
    <2> QED BY <1>4, <2>1 DEF PutOld, QueueInOrder
  <1>5. ASSUME TakenOut
        PROVE  QueueInOrder' /\ \A x \in {Head(cmdCh)} : x \in Commands /\ Before(x)'
    <2>1. /\ Members(cmdCh') \subseteq Members(cmdCh) /\ Increasing(cmdCh')
          /\ Head(cmdCh) \in Members(cmdCh) /\ Head(cmdCh) \in Commands
          /\ \A m \in Members(cmdCh') : Head(cmdCh) < m
      BY <1>5, TailMembers DEF TakenOut, QueueInOrder
    <2> QED BY <1>5, <2>1 DEF TakenOut, QueueInOrder, Before
  <1> QED BY <1>1, <1>2, <1>3, <1>4, <1>5, QueueSteps

\* Everything that has left the queue comes before what is in it.  What the loop
\* of the session is about to begin with, if the session is not over, comes after
\* all that has been begun with.
CommandsInOrder ==
    /\ QueueInOrder
    /\ \A l \in Sessions : Before(loop[l].cmd)
    /\ \A b \in Members(begun) : Before(b)
    /\ Increasing(begun)
    /\ \A l \in Sessions \ ended : loop[l].pc \in {"stop", "cancel", "store", "tell"}
           => \A b \in Members(begun) : b < loop[l].cmd

\* What the steps of a loop do to its command, and to the list.
LEMMA CommandSteps ==
    ASSUME TypeInv, [Next]_vars, NEW l \in Sessions
    PROVE  /\ loop'[l].cmd = loop[l].cmd \/ (TakeCommand(l) /\ TakenOut /\ loop'[l].cmd = Head(cmdCh))
           /\ loop'[l].pc \in {"stop", "cancel", "store", "tell"} =>
                \/ /\ loop[l].pc \in {"stop", "cancel", "store", "tell"}
                   /\ loop'[l].cmd = loop[l].cmd
                \/ /\ TakenOut
                   /\ loop'[l].cmd = Head(cmdCh)
                   /\ UNCHANGED begun
           /\ ended \subseteq ended'
           /\ \/ UNCHANGED begun
              \/ \E k \in Sessions : /\ TellRunning(k) /\ Live(k)
                                     /\ begun' = Append(begun, loop[k].cmd)
  <1>0. loop \in [Sessions -> LoopStates]
    BY DEF TypeInv, TypeOK, LoopStates
  <1>1. CASE Connect
    <2>1. /\ loop'[l].cmd = loop[l].cmd
          /\ loop'[l].pc = loop[l].pc \/ loop'[l].pc = "select"
      BY <1>0, <1>1 DEF Connect
    <2> QED BY <1>1, <2>1 DEF Connect, ghosts
  <1>2. CASE MainNext /\ ~Connect
    BY <1>2 DEF MainNext, MainStep, DropOldest, PutCommand, StopCancel, Cleanup, Report,
           EndTakesCancel, EndCancel, RegisterFails, ReadWelcome, ReadCommand, ReadStop,
           ReadFails, ghosts
  <1>3. ASSUME NEW k \in Sessions, TakeCommand(k)
        PROVE  /\ TakenOut /\ UNCHANGED <<begun, ended>>
               /\ k # l => loop'[l] = loop[l]
               /\ k = l => loop'[l].cmd = Head(cmdCh)
    BY <1>0, <1>3 DEF TakeCommand, TakenOut, Pending, MainAt, ghosts
  <1>4. ASSUME NEW k \in Sessions, LoopNext(k), ~TakeCommand(k)
        PROVE  /\ loop'[l].cmd = loop[l].cmd
               /\ loop'[l].pc \in {"stop", "cancel", "store", "tell"}
                      => loop[l].pc \in {"stop", "cancel", "store", "tell"}
               /\ ended' = ended
               /\ \/ UNCHANGED begun
                  \/ /\ TellRunning(k) /\ Live(k)
                     /\ begun' = Append(begun, loop[k].cmd)
    <2>1. ended' = ended
      BY <1>4 DEF LoopNext, Exit, LoopTakesCancel, LoopCancels, StoreCancel,
         TellRunning,
             BeginWrite, EndWrite, WorkEnds, CheckContext, TellIdle
    <2>2. \/ UNCHANGED begun
          \/ TellRunning(k) /\ Live(k) /\ begun' = Append(begun, loop[k].cmd)
      BY <1>4 DEF LoopNext, Exit, LoopTakesCancel, LoopCancels, StoreCancel,
         TellRunning,
             BeginWrite, EndWrite, WorkEnds, CheckContext, TellIdle, ghosts
    <2>3. CASE LoopTakesCancel(k) \/ LoopCancels(k)
      <3>0. loop[k].pc \in {"stop", "cancel"}
        BY <2>3 DEF LoopTakesCancel, LoopCancels, LoopAt
      <3>1. ASSUME NEW pc, NEW cut, loop' = [loop EXCEPT ![k].pc = pc, ![k].cut = cut]
            PROVE  loop'[l].cmd = loop[l].cmd
        BY <1>0, <3>1 DEF LoopStates
      <3>3. loop'[l].cmd = loop[l].cmd
        BY <2>3, <3>1 DEF LoopTakesCancel, LoopCancels
      <3>2. k # l => loop'[l] = loop[l]
        BY <1>0, <2>3 DEF LoopTakesCancel, LoopCancels
      <3> QED BY <2>1, <2>2, <3>0, <3>2, <3>3
    <2>4. ASSUME NEW pc, LoopGoto(k, pc),
                 pc \in {"stop", "cancel", "store", "tell"}
                     => loop[k].pc \in {"stop", "cancel", "store", "tell"}
          PROVE  /\ loop'[l].cmd = loop[l].cmd
                 /\ loop'[l].pc \in {"stop", "cancel", "store", "tell"}
                        => loop[l].pc \in {"stop", "cancel", "store", "tell"}
      BY <1>0, <2>4 DEF LoopGoto
    <2>5. CASE ~(LoopTakesCancel(k) \/ LoopCancels(k))
      <3>1. \E pc \in LoopPCs : /\ LoopGoto(k, pc)
                                /\ pc \in {"stop", "cancel", "store", "tell"}
                                       => loop[k].pc \in {"stop", "cancel", "store", "tell"}
        BY <1>4, <2>5 DEF LoopNext, Exit, StoreCancel, TellRunning, BeginWrite,
           EndWrite,
               WorkEnds, CheckContext, TellIdle, LoopAt, LoopPCs
      <3> QED BY <2>1, <2>2, <2>4, <3>1
    <2> QED BY <2>3, <2>5
  <1>5. CASE UNCHANGED vars
    BY <1>5 DEF vars, ghosts
  <1> QED BY <1>1, <1>2, <1>3, <1>4, <1>5 DEF Next

LEMMA NextCommandsInOrder ==
    ASSUME TypeInv, TypeInv', SessionsInOrder, CommandsInOrder, [Next]_vars
    PROVE  CommandsInOrder'
  <1>0. /\ \A l \in Sessions : loop[l].cmd \in Nat /\ (loop[l].pc = "tell" => loop[l].cmd \in Commands)
        /\ begun \in Seq(Commands)
        /\ Members(begun) \subseteq Nat
    <2>1. loop \in [Sessions -> LoopStates] /\ begun \in Seq(Commands)
      BY DEF TypeInv, TypeOK, LoopStates
    <2>2. \A l \in Sessions : loop[l].cmd \in Nat
      <3> SUFFICES ASSUME NEW l \in Sessions PROVE loop[l].cmd \in Nat
        OBVIOUS
      <3>1. loop[l] \in LoopStates
        BY <2>1
      <3>2. loop[l].cmd \in Commands \cup {None}
        BY <3>1 DEF LoopStates
      <3>3. \A m \in Commands \cup {None} : m \in Nat
        BY DEF Commands, None
      <3> QED BY <3>2, <3>3
    <2>3. \A l \in Sessions : loop[l].pc = "tell" => loop[l].cmd \in Commands
      BY <2>1 DEF LoopStates, TypeInv, LoopsHaveCommands
    <2>4. Members(begun) \subseteq Nat
      <3>1. \A i \in DOMAIN begun : begun[i] \in Commands
        BY <2>1
      <3> QED BY <3>1, Numbers DEF Members
    <2> QED BY <2>1, <2>2, <2>3, <2>4
  <1>1. /\ QueueInOrder'
        /\ TakenOut => \A x \in {Head(cmdCh)} : x \in Commands /\ Before(x)'
    BY NextQueueInOrder DEF CommandsInOrder
  <1>2. \A x \in Nat : Before(x) => Before(x)'
    BY NextBefore
  <1>3. \A l \in Sessions : \A x \in {loop'[l].cmd} : Before(x)'
    BY <1>0, <1>1, <1>2, CommandSteps DEF CommandsInOrder
  <1>4. ASSUME NEW k \in Sessions, TellRunning(k), Live(k), begun' = Append(begun, loop[k].cmd)
        PROVE  /\ Members(begun') = Members(begun) \cup {loop[k].cmd}
               /\ Increasing(begun')
               /\ loop'[k].pc = "work"
               /\ k = session
    <2>1. loop[k].pc = "tell" /\ loop'[k].pc = "work" /\ k \notin ended
      BY <1>4 DEF TellRunning, LoopAt, LoopGoto, Live, TypeInv, TypeOK
    <2>2. \A b \in Members(begun) : b < loop[k].cmd
      BY <2>1 DEF CommandsInOrder
    <2>3. k = session
      BY <2>1, Numbers DEF SessionsInOrder, TypeInv, TypeOK
    <2> QED BY <1>0, <1>4, <2>1, <2>2, <2>3, AppendMembers DEF CommandsInOrder
  <1>5. /\ \A b \in Members(begun') : Before(b)'
        /\ Increasing(begun')
    <2>1. CASE UNCHANGED begun
      BY <1>0, <1>2, <2>1 DEF CommandsInOrder
    <2>2. ASSUME NEW k \in Sessions, TellRunning(k), Live(k),
                 begun' = Append(begun, loop[k].cmd)
          PROVE  /\ \A b \in Members(begun') : Before(b)'
                 /\ Increasing(begun')
      <3>1. Before(loop[k].cmd) /\ loop[k].cmd \in Nat
        BY <1>0 DEF CommandsInOrder
      <3>2. \A b \in Members(begun) \cup {loop[k].cmd} : Before(b) /\ b \in Nat
        BY <1>0, <3>1 DEF CommandsInOrder
      <3>3. Members(begun') = Members(begun) \cup {loop[k].cmd} /\ Increasing(begun')
        BY <1>4, <2>2
      <3>4. \A b \in Members(begun) \cup {loop[k].cmd} : Before(b)'
        BY <1>2, <3>2
      <3> QED BY <3>3, <3>4
    <2>3. \E l : l \in Sessions
      BY AgentAssumption DEF Sessions
    <2> QED BY <2>1, <2>2, <2>3, CommandSteps
  <1>6. ASSUME NEW l \in Sessions \ ended', loop'[l].pc \in {"stop", "cancel", "store", "tell"},
               NEW b \in Members(begun')
        PROVE  b < loop'[l].cmd
    <2>0. l \notin ended
      BY <1>6, CommandSteps
    <2>1. CASE TakenOut /\ loop'[l].cmd = Head(cmdCh) /\ UNCHANGED begun
      <3>1. Before(b) /\ Head(cmdCh) \in Members(cmdCh)
        BY <1>6, <2>1, TailMembers, QueueIsNumbers DEF CommandsInOrder, TakenOut
      <3> QED BY <2>1, <3>1 DEF Before
    <2>2. CASE loop[l].pc \in {"stop", "cancel", "store", "tell"} /\ loop'[l].cmd = loop[l].cmd
      <3>1. CASE UNCHANGED begun
        BY <1>6, <2>0, <2>2, <3>1 DEF CommandsInOrder
      <3>2. ASSUME NEW k \in Sessions, TellRunning(k), Live(k),
                   begun' = Append(begun, loop[k].cmd)
            PROVE  FALSE
        <4>1. k = session /\ loop'[k].pc = "work"
          BY <1>4, <3>2
        <4>2. l = session
          BY <2>0, <2>2, Numbers DEF SessionsInOrder, TypeInv, TypeOK
        <4> QED BY <1>6, <4>1, <4>2
      <3> QED BY <3>1, <3>2, CommandSteps
    <2> QED BY <1>6, <2>1, <2>2, CommandSteps
  <1> QED BY <1>1, <1>3, <1>5, <1>6 DEF CommandsInOrder

LEMMA AlwaysCommandsInOrder ==
    Spec => [](TypeInv /\ SessionsInOrder /\ CommandsInOrder)
  <1>1. Init => CommandsInOrder
    <2> SUFFICES ASSUME Init PROVE CommandsInOrder
      OBVIOUS
    <2>1. cmdCh = << >> /\ begun = << >> /\ received = 0 /\ ~Pending
      BY DEF Init, Pending, MainAt
    <2>2. Members(<< >>) = {} /\ Increasing(<< >>)
      BY DEF Members, Increasing
    <2>3. \A l \in Sessions : loop[l].cmd = 0
      BY Numbers DEF Init
    <2> QED BY <2>1, <2>2, <2>3 DEF CommandsInOrder, QueueInOrder, Before
  <1> QED BY <1>1, AlwaysInOrder, NextCommandsInOrder, InitTypeInv, NextTypeInv,
             PTL DEF Spec

\* Commands are worked on in the order in which they were received, and none
\* twice, over all sessions.
THEOREM WorkBeginsInOrder == Spec => []BeginInOrder
  <1>1. CommandsInOrder => BeginInOrder
    BY DEF CommandsInOrder, BeginInOrder, Increasing
  <1> QED BY <1>1, AlwaysCommandsInOrder, PTL

-----------------------------------------------------------------------------
(***************************************************************************)
(* The latest command.  A loop does not give it up for another one: there  *)
(* is none behind it.                                                      *)
(***************************************************************************)
LEMMA LatestIsSomewhere ==
    LatestIsKept <=> (received > 0 => \/ Pending
                                      \/ received \in Members(cmdCh)
                                      \/ \E l \in Sessions : loop[l].cmd = received)
  BY DEF LatestIsKept, Pending, Members

LEMMA OtherSteps ==
    ASSUME TypeInv, [Next]_vars, ~DropOldest, ~PutCommand, ~ReadCommand,
           ~ \E l \in Sessions : TakeCommand(l)
    PROVE  UNCHANGED <<cmdCh, received>> /\ (Pending' <=> Pending)
  <1>1. CASE MainNext
    BY <1>1 DEF MainNext, MainStep, StopCancel, Cleanup, Report, EndTakesCancel,
       EndCancel,
           Connect, RegisterFails, ReadWelcome, ReadStop, ReadFails, queueing, Pending,
           MainAt, MainGoto, TypeInv, TypeOK
  <1>2. ASSUME NEW l \in Sessions, LoopNext(l)
        PROVE  UNCHANGED <<cmdCh, received>> /\ (Pending' <=> Pending)
    BY <1>2 DEF LoopNext, Exit, LoopTakesCancel, LoopCancels, StoreCancel, TellRunning,
           BeginWrite, EndWrite, WorkEnds, CheckContext, TellIdle, queueing, Pending,
           MainAt
  <1>3. CASE UNCHANGED vars
    BY <1>3 DEF vars, queueing, Pending, MainAt
  <1> QED BY <1>1, <1>2, <1>3 DEF Next

LEMMA NextLatestIsKept ==
    ASSUME TypeInv, CommandsInOrder, LatestIsKept, [Next]_vars
    PROVE  LatestIsKept'
  <1> SUFFICES ASSUME received' > 0
               PROVE  \/ Pending'
                      \/ received' \in Members(cmdCh')
                      \/ \E l \in Sessions : loop'[l].cmd = received'
    BY DEF LatestIsKept, Pending, Members
  <1> USE QueueIsNumbers
  <1>1. CASE DropOldest
    BY <1>1 DEF DropOldest, Pending, MainAt, MainGoto, TypeInv, TypeOK
  <1>2. CASE PutCommand
    <2>1. received \in Commands /\ received' = received /\ cmdCh' = Append(cmdCh, received)
      BY <1>2 DEF PutCommand, Pending
    <2> QED BY <2>1, AppendMembers
  <1>3. CASE ReadCommand
    <2>1. received + 1 \in Commands
      <3>1. received < MaxCommands
        BY <1>3 DEF ReadCommand
      <3> QED BY <3>1, Numbers DEF Commands
    <2>2. CASE cmdCh' = Append(cmdCh, received + 1)
      BY <1>3, <2>1, <2>2, AppendMembers DEF ReadCommand
    <2>3. CASE MainGoto("full")
      BY <2>3 DEF MainGoto, Pending, MainAt, TypeInv, TypeOK
    <2> QED BY <1>3, <2>2, <2>3 DEF ReadCommand
  <1>4. ASSUME NEW l \in Sessions, TakeCommand(l)
        PROVE  \/ Pending'
               \/ received' \in Members(cmdCh')
               \/ \E k \in Sessions : loop'[k].cmd = received'
    <2>1. /\ cmdCh # << >> /\ cmdCh' = Tail(cmdCh) /\ received' = received
          /\ Pending' <=> Pending
          /\ loop'[l].cmd = Head(cmdCh)
      BY <1>4 DEF TakeCommand, Pending, MainAt, TypeInv, TypeOK
    <2>2. /\ Head(cmdCh) \in Members(cmdCh)
          /\ Members(cmdCh) \subseteq Members(Tail(cmdCh)) \cup {Head(cmdCh)}
      BY <2>1, TailMembers
    <2>3. ASSUME NEW k \in Sessions, loop[k].cmd = received PROVE FALSE
      <3>1. received < Head(cmdCh) /\ Head(cmdCh) <= received /\ Head(cmdCh) \in Nat
        BY <2>2, <2>3 DEF CommandsInOrder, Before, QueueInOrder
      <3> QED BY <3>1
    <2>4. Pending \/ received \in Members(cmdCh)
      BY <2>1, <2>3, LatestIsSomewhere
    <2> QED BY <2>1, <2>2, <2>4
  <1>5. CASE ~DropOldest /\ ~PutCommand /\ ~ReadCommand
             /\ ~ \E l \in Sessions : TakeCommand(l)
    <2>1. UNCHANGED <<cmdCh, received>> /\ (Pending' <=> Pending)
      BY <1>5, OtherSteps
    <2>2. \A l \in Sessions : loop'[l].cmd = loop[l].cmd
      BY <1>5, CommandSteps
    <2> QED BY <2>1, <2>2, LatestIsSomewhere
  <1> QED BY <1>1, <1>2, <1>3, <1>4, <1>5

\* The latest command received is never the one a full queue drops.
THEOREM LatestStays == Spec => []LatestIsKept
  <1>1. Init => LatestIsKept
    BY DEF Init, LatestIsKept
  <1> QED BY <1>1, AlwaysCommandsInOrder, NextLatestIsKept, PTL DEF Spec

-----------------------------------------------------------------------------
(***************************************************************************)
(* Stops in the first session.  Its loop is the only one.  What the loop   *)
(* has under way is what the agent would cancel, or is about to; and what  *)
(* comes after a stop is not what was under way when it was read.          *)
(***************************************************************************)
InHand == Underway(1) /\ Live(1)

StopInOrder ==
    /\ loop[1].pc \in {"stop", "cancel", "store"} => \A b \in atStop : b < loop[1].cmd
    /\ InHand => \/ runCancel = loop[1].cmd
                 \/ MainAt("cancel") /\ main.cut = loop[1].cmd
    /\ InHand /\ loop[1].cmd \in atStop => MainAt("cancel") /\ main.cut = loop[1].cmd

StopsAreBefore == \A b \in atStop : Before(b)

LEMMA NextStopsAreBefore ==
    ASSUME TypeInv, TypeInv', CommandsInOrder, StopsAreBefore, [Next]_vars
    PROVE  StopsAreBefore'
  <1>1. atStop' = atStop \/ atStop' = {loop[l].cmd : l \in {j \in Sessions : Underway(j)}}
    BY DEF Next, vars, MainNext, MainStep, DropOldest, PutCommand, StopCancel,
       Cleanup, Report,
           EndTakesCancel, EndCancel, Connect, RegisterFails, ReadWelcome, ReadCommand,
           ReadStop, ReadFails, LoopNext, Exit, TakeCommand, LoopTakesCancel, LoopCancels,
           StoreCancel, TellRunning, BeginWrite, EndWrite, WorkEnds, CheckContext, TellIdle,
           ghosts
  <1>2. \A b \in atStop' : Before(b)
    BY <1>1 DEF StopsAreBefore, CommandsInOrder
  <1>3. \A b \in atStop' : b \in Nat
    BY Numbers DEF TypeInv, TypeOK
  <1> QED BY <1>2, <1>3, NextBefore DEF StopsAreBefore

LEMMA Going ==
    ASSUME loop \in [Sessions -> LoopStates], NEW l \in Sessions, NEW pc, LoopGoto(l, pc)
    PROVE  loop'[l].pc = pc /\ loop'[l].cmd = loop[l].cmd
  BY DEF LoopGoto, LoopStates

LEMMA NextStopInOrder ==
    ASSUME TypeInv, SessionsInOrder, CommandsInOrder, StopsAreBefore,
           session = 1 => StopInOrder, [Next]_vars, session' = 1
    PROVE  StopInOrder'
  <1>0. /\ 1 \in Sessions
        /\ loop \in [Sessions -> LoopStates]
    BY AgentAssumption DEF Sessions, TypeInv, TypeOK, LoopStates
  <1>1. CASE Connect
    <2>1. loop'[1].pc = "select"
      BY <1>0, <1>1, Numbers DEF Connect, TypeInv, TypeOK
    <2> QED BY <2>1 DEF StopInOrder, InHand, Underway
  <1>2. ASSUME ~Connect PROVE session = 1 /\ StopInOrder
    <2>1. session' = session
      BY <1>2 DEF Next, vars, MainNext, MainStep, DropOldest, PutCommand, StopCancel,
         Cleanup,
           Report, EndTakesCancel, EndCancel, RegisterFails, ReadWelcome, ReadCommand,
           ReadStop, ReadFails, LoopNext, Exit, TakeCommand, LoopTakesCancel, LoopCancels,
           StoreCancel, TellRunning, BeginWrite, EndWrite, WorkEnds, CheckContext,
           TellIdle
    <2> QED BY <2>1
  <1>3. CASE ReadStop
    <2>1. StopInOrder /\ ~MainAt("cancel")
      BY <1>2, <1>3 DEF ReadStop, Connect, MainAt
    <2>2. /\ UNCHANGED <<loop, cancelled, ended>>
          /\ MainAt("cancel")' /\ main'.cut = runCancel
          /\ \A b \in atStop' : \E l \in Sessions : Underway(l) /\ b = loop[l].cmd
      BY <1>3 DEF ReadStop, MainAt, TypeInv, TypeOK
    <2>3. \A l \in Sessions : Underway(l) => l = 1
      BY <1>2, <1>3, Numbers DEF ReadStop, Connect, MainAt, SessionsInOrder, Underway
    <2>4. loop[1].pc \in {"stop", "cancel", "store"} => ~Underway(1)
      BY DEF Underway
    <2> QED BY <2>1, <2>2, <2>3, <2>4 DEF StopInOrder, InHand, Underway, Live
  <1>4. CASE StopCancel
    <2>1. /\ StopInOrder
          /\ UNCHANGED <<loop, runCancel, ended, atStop>>
          /\ cancelled' = cancelled \cup ({main.cut} \ {None})
          /\ ~MainAt("cancel")'
      BY <1>2, <1>4 DEF StopCancel, Connect, Cancel, MainAt, ghosts, TypeInv, TypeOK
    <2>2. Underway(1) => loop[1].cmd # None
      BY <1>0 DEF Underway, TypeInv, LoopsHaveCommands
    <2> QED BY <2>1, <2>2 DEF StopInOrder, InHand, Underway, Live
  <1>5. CASE EndTakesCancel
    <2>1. session = 1 /\ session \in ended /\ UNCHANGED <<loop, ended, atStop>>
      BY <1>2, <1>5 DEF EndTakesCancel, Connect, MainAt, SessionsInOrder, ghosts
    <2>2. ~InHand /\ ~InHand'
      BY <2>1 DEF InHand, Live
    <2> QED BY <1>2, <1>5, <2>1, <2>2 DEF EndTakesCancel, Connect, MainAt, StopInOrder
  <1>6. CASE MainNext /\ ~Connect /\ ~ReadStop /\ ~StopCancel /\ ~EndTakesCancel
    <2>1. /\ UNCHANGED <<loop, runCancel, atStop>>
          /\ cancelled \subseteq cancelled' /\ ended \subseteq ended'
          /\ ~MainAt("cancel") /\ ~MainAt("cancel")'
      BY <1>6 DEF MainNext, MainStep, DropOldest, PutCommand, Cleanup, Report,
         EndCancel,
             RegisterFails, ReadWelcome, ReadCommand, ReadFails, Cancel, queueing, context,
             ghosts, MainAt, MainGoto, TypeInv, TypeOK
    <2> QED BY <1>2, <1>6, <2>1 DEF StopInOrder, InHand, Underway, Live
  <1>7. ASSUME NEW l \in Sessions, LoopNext(l) PROVE l = 1 /\ StopInOrder
    <2>1. loop[l].pc # "none" /\ ~Connect
      BY <1>7 DEF LoopNext, LoopAt, Exit, TakeCommand, LoopTakesCancel, LoopCancels,
             StoreCancel, TellRunning, BeginWrite, EndWrite, WorkEnds, CheckContext, TellIdle,
             Connect, MainAt, MainGoto, TypeInv, TypeOK
    <2> QED BY <1>2, <2>1, Numbers DEF SessionsInOrder
  <1>8. CASE TakeCommand(1)
    <2>1. /\ loop'[1].pc = "stop" /\ loop'[1].cmd = Head(cmdCh)
          /\ Head(cmdCh) \in Members(cmdCh)
          /\ atStop' = atStop
      BY <1>0, <1>8, TailMembers, QueueIsNumbers DEF TakeCommand, ghosts
    <2>2. \A b \in atStop : b < Head(cmdCh)
      BY <2>1 DEF StopsAreBefore, Before
    <2> QED BY <2>1, <2>2 DEF StopInOrder, InHand, Underway
  <1>9. CASE StoreCancel(1)
    <2>0. loop[1].pc = "store" /\ atStop' = atStop /\ runCancel' = loop[1].cmd
          /\ (LoopGoto(1, "tell") \/ LoopGoto(1, "select"))
      BY <1>9 DEF StoreCancel, LoopAt, ghosts
    <2>1. /\ loop'[1].cmd = loop[1].cmd
          /\ runCancel' = loop'[1].cmd
          /\ loop'[1].pc \in {"tell", "select"}
      BY <1>0, <2>0, Going
    <2>2. loop[1].cmd \notin atStop
      <3>1. \A b \in atStop : b < loop[1].cmd
        BY <1>0, <1>7, <1>9, <2>0 DEF LoopNext, StopInOrder
      <3>2. loop[1].cmd \in Nat
        <4>1. loop[1] \in LoopStates
          BY <1>0
        <4>2. \A m \in Commands \cup {None} : m \in Nat
          BY DEF Commands, None
        <4> QED BY <4>1, <4>2 DEF LoopStates
      <3> QED BY <3>1, <3>2
    <2> QED BY <2>0, <2>1, <2>2 DEF StopInOrder, InHand
  <1>10. CASE LoopTakesCancel(1) \/ LoopCancels(1)
    <2>1. loop[1].pc \in {"stop", "cancel"} /\ atStop' = atStop
      BY <1>10 DEF LoopTakesCancel, LoopCancels, LoopAt, ghosts
    <2>2. loop'[1].cmd = loop[1].cmd /\ loop'[1].pc \in {"cancel", "store"}
      <3>1. ASSUME NEW pc, NEW cut, loop' = [loop EXCEPT ![1].pc = pc, ![1].cut = cut]
            PROVE  loop'[1].cmd = loop[1].cmd /\ loop'[1].pc = pc
        BY <1>0, <3>1 DEF LoopStates
      <3> QED BY <1>10, <3>1 DEF LoopTakesCancel, LoopCancels
    <2>3. StopInOrder
      BY <1>0, <1>7, <1>10 DEF LoopNext
    <2> QED BY <2>1, <2>2, <2>3 DEF StopInOrder, InHand, Underway
  <1>11. CASE \/ Exit(1) \/ TellRunning(1) \/ BeginWrite(1) \/ EndWrite(1)
              \/ WorkEnds(1) \/ CheckContext(1) \/ TellIdle(1)
    <2>1. /\ loop'[1].cmd = loop[1].cmd
          /\ loop'[1].pc \notin {"stop", "cancel", "store"}
          /\ Underway(1)' => Underway(1)
      <3>1. \E pc \in {"exit", "work", "write", "check", "idle", "select"} :
                /\ LoopGoto(1, pc)
                /\ pc \in {"work", "write", "check", "idle"} => Underway(1)
        BY <1>11 DEF Exit, TellRunning, BeginWrite, EndWrite, WorkEnds, CheckContext,
             TellIdle, LoopAt, Underway
      <3> QED BY <1>0, <3>1, Going DEF Underway
    <2>2. UNCHANGED <<runCancel, cancelled, ended, main, atStop>>
      BY <1>11 DEF Exit, TellRunning, BeginWrite, EndWrite, WorkEnds, CheckContext,
             TellIdle, context, ghosts
    <2>3. StopInOrder
      BY <1>0, <1>7, <1>11 DEF LoopNext
    <2> QED BY <2>1, <2>2, <2>3 DEF StopInOrder, InHand, Live, MainAt
  <1>12. CASE UNCHANGED vars
    <2>1. StopInOrder
      BY <1>12 DEF vars
    <2> QED BY <1>12, <2>1 DEF vars, context, ghosts, StopInOrder, InHand, Underway,
               Live, MainAt
  <1> QED BY <1>1, <1>3, <1>4, <1>5, <1>6, <1>7, <1>8, <1>9, <1>10, <1>11, <1>12
          DEF Next, LoopNext

StopInv == StopsAreBefore /\ (session = 1 => StopInOrder)

\* Once a stop has done its cancelling, nothing that was under way when it was
\* read goes on, in the first session, whatever the command loop does meanwhile.
THEOREM StopsCancel == Spec => []StopCancelsWork
  <1>1. Init => StopInv
    BY DEF Init, StopInv, StopsAreBefore
  <1>2. TypeInv /\ SessionsInOrder /\ CommandsInOrder /\ StopInv => StopCancelsWork
    <2> SUFFICES ASSUME TypeInv, SessionsInOrder, StopInOrder, session = 1,
                        MainAt("cleanup"), NEW l \in Sessions, Missed(l)
                 PROVE  FALSE
      BY DEF StopCancelsWork, StopInv
    <2>1. l = 1
      BY Numbers DEF Missed, Underway, Live, SessionsInOrder
    <2> QED BY <2>1 DEF Missed, StopInOrder, InHand, MainAt
  <1>3. TypeInv /\ TypeInv' /\ SessionsInOrder /\ CommandsInOrder /\ StopInv /\ [Next]_vars
        => StopInv'
    BY NextStopsAreBefore, NextStopInOrder DEF StopInv
  <1> QED BY <1>1, <1>2, <1>3, AlwaysCommandsInOrder, PTL DEF Spec
=============================================================================
