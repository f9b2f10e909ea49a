------------------------------- MODULE Agent --------------------------------
(***************************************************************************)
(* The agent on a client host.  Its main goroutine holds one session with  *)
(* the controller after the other and reads the controller's messages.     *)
(* Each session has a command loop, a goroutine that takes commands from a *)
(* queue and works on them one at a time.  The queue, the worker and the   *)
(* function that cancels the work under way belong to the agent and are    *)
(* shared by all of them; a command loop may well outlive its session.     *)
(*                                                                         *)
(* Abstractions.  Commands are numbered as they are received, and so is    *)
(* the context a loop makes for each.  The controller may send anything at *)
(* any time.  What a worker does to the host's directory is that it writes *)
(* to it, one operation at a time; configurations, metrics and pings are   *)
(* left out.                                                               *)
(***************************************************************************)
EXTENDS Naturals, Sequences

CONSTANTS
    QueueCap,     \* capacity of the queue of commands
    \* Bounds.
    MaxSessions,  \* on the number of sessions
    MaxCommands,  \* on the number of commands received
    MaxStops      \* on the number of stops received

ASSUME AgentAssumption ==
    /\ QueueCap \in Nat \ {0}
    /\ MaxSessions \in Nat \ {0}
    /\ MaxCommands \in Nat
    /\ MaxStops \in Nat

Sessions == 1..MaxSessions
Commands == 1..MaxCommands
None == 0

VARIABLES
    main,       \* the main goroutine: where it is, the context it is about to
                \* cancel, the status it is about to send
    session,    \* number of the latest session
    connected,  \* Agent.conn is set
    welcomed,   \* Agent.worker and Agent.clientID are set
    cmdCh,      \* Agent.cmdCh, the queue
    runCancel,  \* Agent.runCancel: the context it would cancel, or None
    cancelled,  \* contexts that were cancelled
    ended,      \* sessions whose context was cancelled
    loop,       \* the command loop of each session: where it is, its command,
                \* the context it is about to cancel
    tree,       \* the host's directory exists
    status,     \* the last status sent: what, and on which command
    received,   \* number of commands received
    stops,      \* number of stops received
    \* Ghosts.
    begun,      \* commands in the order in which work on them began
    atStop      \* commands under way when the latest stop was read

queueing == <<cmdCh, received>>
context == <<runCancel, cancelled>>
ghosts == <<begun, atStop>>
vars == <<main, session, connected, welcomed, queueing, context, ended, loop,
          tree, status, stops, ghosts>>

MainPCs == {"dial", "read", "full", "put", "cancel", "cleanup", "report", "end",
            "endCancel"}
LoopPCs == {"none", "select", "stop", "cancel", "store", "tell", "work", "write",
            "check", "idle", "exit"}
Statuses == {"none", "registered", "running", "idle", "stopped"}

TypeOK ==
    /\ main \in [pc : MainPCs, cut : Commands \cup {None}, say : Statuses]
    /\ session \in Sessions \cup {0}
    /\ connected \in BOOLEAN
    /\ welcomed \in BOOLEAN
    /\ cmdCh \in Seq(Commands) /\ Len(cmdCh) <= QueueCap
    /\ runCancel \in Commands \cup {None}
    /\ cancelled \in SUBSET Commands
    /\ ended \in SUBSET Sessions
    /\ loop \in [Sessions -> [pc : LoopPCs, cmd : Commands \cup {None},
                              cut : Commands \cup {None}]]
    /\ tree \in BOOLEAN
    /\ status \in [what : Statuses, cmd : Commands \cup {None}]
    /\ received \in 0..MaxCommands
    /\ stops \in 0..MaxStops
    /\ begun \in Seq(Commands)
    /\ atStop \in SUBSET Commands

Init ==
    /\ main = [pc |-> "dial", cut |-> None, say |-> "none"]
    /\ session = 0
    /\ connected = FALSE
    /\ welcomed = FALSE
    /\ cmdCh = << >>
    /\ runCancel = None
    /\ cancelled = {}
    /\ ended = {}
    /\ loop = [l \in Sessions |-> [pc |-> "none", cmd |-> None, cut |-> None]]
    /\ tree = FALSE
    /\ status = [what |-> "none", cmd |-> None]
    /\ received = 0
    /\ stops = 0
    /\ begun = << >>
    /\ atStop = {}

-----------------------------------------------------------------------------
MainAt(pc) == main.pc = pc
MainGoto(pc) == main' = [main EXCEPT !.pc = pc]
LoopAt(l, pc) == loop[l].pc = pc
LoopGoto(l, pc) == loop' = [loop EXCEPT ![l].pc = pc]

\* The context of the command loop l works on is neither cancelled itself nor
\* through its session.
Live(l) == loop[l].cmd \notin cancelled /\ l \notin ended

\* Loop l has made its context for a command known and has not seen its end.
Underway(l) == loop[l].pc \in {"tell", "work", "write", "check", "idle"}

\* stopWork, the locked part: what to cancel is taken.
TakeCancel == runCancel' = None

\* stopWork, the rest.
Cancel(c) == cancelled' = cancelled \cup ({c} \ {None})

\* sendStatus: nothing is sent without a connection.
SendStatus(what, cmd) ==
    status' = IF connected /\ welcomed THEN [what |-> what, cmd |-> cmd]
                                       ELSE status

-----------------------------------------------------------------------------
(***************************************************************************)
(* The main goroutine.                                                     *)
(***************************************************************************)
Connect ==
    /\ MainAt("dial")
    /\ session < MaxSessions
    /\ session' = session + 1
    /\ connected' = TRUE
    /\ MainGoto("read")
    /\ loop' = [loop EXCEPT ![session + 1].pc = "select"]
    /\ UNCHANGED <<welcomed, queueing, context, ended, tree, status, stops, ghosts>>

\* The connection breaks before the client is registered.
RegisterFails ==
    /\ MainAt("dial")
    /\ connected' = TRUE
    /\ MainGoto("end")
    /\ UNCHANGED <<session, welcomed, queueing, context, ended, loop, tree, status,
                   stops, ghosts>>

ReadWelcome ==
    /\ MainAt("read")
    /\ welcomed' = TRUE
    /\ main' = [main EXCEPT !.pc = "report", !.say = "registered"]
    /\ UNCHANGED <<session, connected, queueing, context, ended, loop, tree, status,
                   stops, ghosts>>

\* Mutant: a full queue drops the new command.
ReadCommand_DropsNew ==
    /\ MainAt("read")
    /\ received < MaxCommands
    /\ received' = received + 1
    /\ cmdCh' = IF Len(cmdCh) < QueueCap THEN Append(cmdCh, received + 1) ELSE cmdCh
    /\ UNCHANGED <<main, session, connected, welcomed, context, ended, loop, tree,
                   status, stops, ghosts>>

ReadCommand ==
    /\ MainAt("read")
    /\ received < MaxCommands
    /\ received' = received + 1
    /\ \/ /\ Len(cmdCh) < QueueCap
          /\ cmdCh' = Append(cmdCh, received + 1)
          /\ UNCHANGED main
       \/ /\ Len(cmdCh) = QueueCap
          /\ MainGoto("full")
          /\ UNCHANGED cmdCh
    /\ UNCHANGED <<session, connected, welcomed, context, ended, loop, tree, status,
                   stops, ghosts>>

\* Mutant: nothing is dropped.
DropOldest_Nothing ==
    /\ MainAt("full")
    /\ MainGoto("put")
    /\ UNCHANGED <<session, connected, welcomed, queueing, context, ended, loop, tree,
                   status, stops, ghosts>>

\* The loop may have emptied the queue in the meantime.
DropOldest ==
    /\ MainAt("full")
    /\ cmdCh' = IF cmdCh = << >> THEN cmdCh ELSE Tail(cmdCh)
    /\ MainGoto("put")
    /\ UNCHANGED <<session, connected, welcomed, received, context, ended, loop, tree,
                   status, stops, ghosts>>

\* This send has no default: it waits for room.
PutCommand ==
    /\ MainAt("put")
    /\ Len(cmdCh) < QueueCap
    /\ cmdCh' = Append(cmdCh, received)
    /\ MainGoto("read")
    /\ UNCHANGED <<session, connected, welcomed, received, context, ended, loop, tree,
                   status, stops, ghosts>>

\* Mutant: the cancel function is not taken.
ReadStop_TakesNothing ==
    /\ MainAt("read")
    /\ stops < MaxStops
    /\ stops' = stops + 1
    /\ main' = [main EXCEPT !.pc = "cancel", !.cut = None]
    /\ atStop' = {loop[l].cmd : l \in {j \in Sessions : Underway(j)}}
    /\ UNCHANGED <<session, connected, welcomed, queueing, context, ended, loop,
                   tree, status, begun>>

ReadStop ==
    /\ MainAt("read")
    /\ stops < MaxStops
    /\ stops' = stops + 1
    /\ main' = [main EXCEPT !.pc = "cancel", !.cut = runCancel]
    /\ TakeCancel
    /\ atStop' = {loop[l].cmd : l \in {j \in Sessions : Underway(j)}}
    /\ UNCHANGED <<session, connected, welcomed, queueing, cancelled, ended, loop,
                   tree, status, begun>>

StopCancel ==
    /\ MainAt("cancel")
    /\ Cancel(main.cut)
    /\ main' = [main EXCEPT !.pc = "cleanup", !.cut = None]
    /\ UNCHANGED <<session, connected, welcomed, queueing, runCancel, ended, loop,
                   tree, status, stops, ghosts>>

\* Without a worker there is nothing to clean up.
Cleanup ==
    /\ MainAt("cleanup")
    /\ tree' = (tree /\ ~welcomed)
    /\ main' = [main EXCEPT !.pc = "report", !.say = "stopped"]
    /\ UNCHANGED <<session, connected, welcomed, queueing, context, ended, loop,
                   status, stops, ghosts>>

Report ==
    /\ MainAt("report")
    /\ SendStatus(main.say, received)
    /\ main' = [main EXCEPT !.pc = "read", !.say = "none"]
    /\ UNCHANGED <<session, connected, welcomed, queueing, context, ended, loop,
                   tree, stops, ghosts>>

\* Mutant: the session's context is not cancelled.
ReadFails_KeepsContext ==
    /\ MainAt("read")
    /\ main' = [main EXCEPT !.pc = "endCancel", !.cut = runCancel]
    /\ TakeCancel
    /\ UNCHANGED <<session, connected, welcomed, queueing, cancelled, ended, loop,
                   tree, status, stops, ghosts>>

\* The connection is broken, or silent for too long.
ReadFails ==
    /\ MainAt("read")
    /\ ended' = ended \cup {session}
    /\ MainGoto("end")
    /\ UNCHANGED <<session, connected, welcomed, queueing, context, loop, tree,
                   status, stops, ghosts>>

EndTakesCancel ==
    /\ MainAt("end")
    /\ main' = [main EXCEPT !.pc = "endCancel", !.cut = runCancel]
    /\ TakeCancel
    /\ UNCHANGED <<session, connected, welcomed, queueing, cancelled, ended, loop,
                   tree, status, stops, ghosts>>

EndCancel ==
    /\ MainAt("endCancel")
    /\ Cancel(main.cut)
    /\ connected' = FALSE
    /\ main' = [main EXCEPT !.pc = "dial", !.cut = None]
    /\ UNCHANGED <<session, welcomed, queueing, runCancel, ended, loop, tree, status,
                   stops, ghosts>>

-----------------------------------------------------------------------------
(***************************************************************************)
(* The command loop of session l.                                          *)
(***************************************************************************)

\* With a command in the queue and the session over, select picks either.
Exit(l) ==
    /\ LoopAt(l, "select")
    /\ l \in ended
    /\ LoopGoto(l, "exit")
    /\ UNCHANGED <<main, session, connected, welcomed, queueing, context, ended, tree,
                   status, stops, ghosts>>

\* Mutant: the command stays in the queue.
TakeCommand_Keeps(l) ==
    /\ LoopAt(l, "select")
    /\ cmdCh # << >>
    /\ loop' = [loop EXCEPT ![l].pc = "stop", ![l].cmd = Head(cmdCh)]
    /\ UNCHANGED <<main, session, connected, welcomed, queueing, context, ended, tree,
                   status, stops, ghosts>>

TakeCommand(l) ==
    /\ LoopAt(l, "select")
    /\ cmdCh # << >>
    /\ cmdCh' = Tail(cmdCh)
    /\ loop' = [loop EXCEPT ![l].pc = "stop", ![l].cmd = Head(cmdCh)]
    /\ UNCHANGED <<main, session, connected, welcomed, received, context, ended, tree,
                   status, stops, ghosts>>

LoopTakesCancel(l) ==
    /\ LoopAt(l, "stop")
    /\ loop' = [loop EXCEPT ![l].pc = "cancel", ![l].cut = runCancel]
    /\ TakeCancel
    /\ UNCHANGED <<main, session, connected, welcomed, queueing, cancelled, ended,
                   tree, status, stops, ghosts>>

LoopCancels(l) ==
    /\ LoopAt(l, "cancel")
    /\ Cancel(loop[l].cut)
    /\ loop' = [loop EXCEPT ![l].pc = "store", ![l].cut = None]
    /\ UNCHANGED <<main, session, connected, welcomed, queueing, runCancel, ended,
                   tree, status, stops, ghosts>>

\* A command that comes before the first welcome is dropped.
StoreCancel(l) ==
    /\ LoopAt(l, "store")
    /\ runCancel' = loop[l].cmd
    /\ \/ /\ welcomed
          /\ LoopGoto(l, "tell")
          /\ UNCHANGED cancelled
       \/ /\ ~welcomed
          /\ Cancel(loop[l].cmd)
          /\ LoopGoto(l, "select")
    /\ UNCHANGED <<main, session, connected, welcomed, queueing, ended, tree, status,
                   stops, ghosts>>

TellRunning(l) ==
    /\ LoopAt(l, "tell")
    /\ SendStatus("running", loop[l].cmd)
    /\ LoopGoto(l, "work")
    /\ begun' = IF Live(l) THEN Append(begun, loop[l].cmd) ELSE begun
    /\ UNCHANGED <<main, session, connected, welcomed, queueing, context, ended, tree,
                   stops, atStop>>

\* The worker looks at its context before each operation, not during it.
BeginWrite(l) ==
    /\ LoopAt(l, "work")
    /\ Live(l)
    /\ LoopGoto(l, "write")
    /\ UNCHANGED <<main, session, connected, welcomed, queueing, context, ended, tree,
                   status, stops, ghosts>>

EndWrite(l) ==
    /\ LoopAt(l, "write")
    /\ tree' = TRUE
    /\ LoopGoto(l, "work")
    /\ UNCHANGED <<main, session, connected, welcomed, queueing, context, ended,
                   status, stops, ghosts>>

\* The command is done, or its context is.
WorkEnds(l) ==
    /\ LoopAt(l, "work")
    /\ LoopGoto(l, "check")
    /\ UNCHANGED <<main, session, connected, welcomed, queueing, context, ended, tree,
                   status, stops, ghosts>>

CheckContext(l) ==
    /\ LoopAt(l, "check")
    /\ LoopGoto(l, IF Live(l) THEN "idle" ELSE "select")
    /\ UNCHANGED <<main, session, connected, welcomed, queueing, context, ended, tree,
                   status, stops, ghosts>>

TellIdle(l) ==
    /\ LoopAt(l, "idle")
    /\ SendStatus("idle", loop[l].cmd)
    /\ LoopGoto(l, "select")
    /\ UNCHANGED <<main, session, connected, welcomed, queueing, context, ended, tree,
                   stops, ghosts>>

-----------------------------------------------------------------------------
\* What the main goroutine does on its own account, and what it reads.
MainStep ==
    \/ DropOldest
    \/ PutCommand
    \/ StopCancel
    \/ Cleanup
    \/ Report
    \/ EndTakesCancel
    \/ EndCancel

MainNext ==
    \/ MainStep
    \/ Connect
    \/ RegisterFails
    \/ ReadWelcome
    \/ ReadCommand
    \/ ReadStop
    \/ ReadFails

LoopNext(l) ==
    \/ Exit(l)
    \/ TakeCommand(l)
    \/ LoopTakesCancel(l)
    \/ LoopCancels(l)
    \/ StoreCancel(l)
    \/ TellRunning(l)
    \/ BeginWrite(l)
    \/ EndWrite(l)
    \/ WorkEnds(l)
    \/ CheckContext(l)
    \/ TellIdle(l)

Next == MainNext \/ \E l \in Sessions : LoopNext(l)

Spec == Init /\ [][Next]_vars

\* Goroutines are scheduled and commands have a duration.  Nothing is asked of
\* the controller.
FairSpec ==
    /\ Spec
    /\ WF_vars(MainStep)
    /\ \A l \in Sessions : WF_vars(LoopNext(l)) /\ SF_vars(WorkEnds(l))

-----------------------------------------------------------------------------
(***************************************************************************)
(* Properties                                                              *)
(***************************************************************************)

\* At most one command is worked on under a context that is not cancelled,
\* though the loops of earlier sessions may still be there.
OneLiveWorker ==
    \A k, l \in Sessions :
        Underway(k) /\ Live(k) /\ Underway(l) /\ Live(l) => k = l

\* Commands are worked on in the order in which they were received, and none
\* twice, over all sessions.
BeginInOrder ==
    \A i, j \in DOMAIN begun : i < j => begun[i] < begun[j]

\* The latest command received is never the one a full queue drops.
LatestIsKept ==
    received > 0 =>
        \/ MainAt("full") \/ MainAt("put")
        \/ \E i \in DOMAIN cmdCh : cmdCh[i] = received
        \/ \E l \in Sessions : loop[l].cmd = received

\* The main goroutine never waits for room in the queue: it would read no stop.
PutNeverWaits ==
    MainAt("put") => Len(cmdCh) < QueueCap

\* Something that was under way when the latest stop was read goes on, and no
\* command loop is just about to cancel it.
Missed(l) ==
    /\ loop[l].cmd \in atStop /\ Underway(l) /\ Live(l)
    /\ \A k \in Sessions : ~(LoopAt(k, "cancel") /\ loop[k].cut = loop[l].cmd)

\* Once a stop has done its cancelling, nothing that was under way when it was
\* read goes on, whatever the command loop does at the time.  (This is so in the
\* first session, as long as no loop of an earlier session is there.)
StopCancelsWork ==
    MainAt("cleanup") /\ session = 1 => \A l \in Sessions : ~Missed(l)

\* The command loop of a session that is over comes to its end.
OldLoopsEnd ==
    \A l \in Sessions : (l < session) ~> LoopAt(l, "exit")

-----------------------------------------------------------------------------
(***************************************************************************)
(* Claims the code does not keep                                           *)
(***************************************************************************)

\* "Stop cancels workCtx": also when there was an earlier session.
StopCancelsWorkLater ==
    MainAt("cleanup") => \A l \in Sessions : ~Missed(l)

\* "Replace any queued command with the latest": of two commands at most one
\* is in the queue.
LatestReplacesQueued == Len(cmdCh) <= 1

\* "Stop cancels workCtx; don't clobber "stopped" with idle + the old phase":
\* nothing is said of an earlier command after "stopped".
StoppedIsNotClobbered ==
    [][ status.what = "stopped" /\ status'.what \in {"running", "idle"}
            => status'.cmd > status.cmd ]_vars

\* "cleaned up": the directory stays away until another command comes.
CleanedUpStaysClean ==
    status.what = "stopped" /\ status.cmd = received /\ MainAt("read") => ~tree
=============================================================================
