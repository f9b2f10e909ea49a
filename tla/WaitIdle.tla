------------------------------ MODULE WaitIdle ------------------------------
(***************************************************************************)
(* A phase that lasts as long as the clients need: the controller sends a  *)
(* command to the participants of the run and polls the registry until all *)
(* of them are idle, or until it runs out of time.  The registry keeps the *)
(* last status of each client, from whatever run, connection or loop it    *)
(* comes: a run may begin, and a wait too, with clients still at work, and *)
(* with their reports still on their way.                                  *)
(*                                                                         *)
(* Abstractions.  Commands are numbered through all runs.  The time waited *)
(* is early or late: late, the clients need not have been seen running.    *)
(* Registration, removal and a put into a full queue are one step each,    *)
(* and the work of a loop that takes a command is cancelled with that      *)
(* step; ClientSessions and Agent have their parts.  While a connection    *)
(* lasts its messages arrive (SendQueue has the queue that may drop them). *)
(* A session lasts until the loop and the handler of the one before it are *)
(* done, and the first one of a client until its welcome: a client that    *)
(* was never welcomed comes back as another client.  No configuration is   *)
(* broadcast between its registration and that welcome.                    *)
(***************************************************************************)
EXTENDS Naturals, SequencesExt

CONSTANTS
    Members,      \* the clients whose participation the user selects
    MaxCommands,  \* bound on the number of commands sent
    Capacity,     \* of a client's queue of commands
    MaxTroubles   \* bound on the number of broken sessions and calls of Stop

ASSUME WaitAssumption ==
    /\ MaxCommands \in Nat \ {0}
    /\ Capacity \in Nat \ {0}
    /\ MaxTroubles \in Nat

Commands == 1..MaxCommands
NoCommand == 0
StopMsg == 0

VARIABLES
    \* The controller.
    wait,        \* what the goroutine of the run does, see Waits
    command,     \* the latest command sent
    want,        \* the participants of the run
    failed,      \* the run has lost a participant
    sawRunning,  \* local to waitClientsIdle
    late,        \* grace, and two seconds more, have passed
    stopping,    \* stops that are about to be broadcast
    status,      \* Registry: the status of each client, "gone" without an entry
    lost,        \* clients removed that OnClientRemoved will be told about
    \* Each client, and its connection.
    link,        \* "up"; "down" after the end of a session; "new" between
                 \* registration and welcome, "first" for the very first one
    wire,        \* messages on their way to the client
    queue,       \* Agent.cmdCh
    job,         \* the work of the command loop
    oldLoop,     \* the command loop of the session before
    reports,     \* status messages on their way to the controller
    old,         \* the same, of the connection before
    finished,    \* the last command that was not cancelled
    \* Ghosts.
    troubles,    \* broken sessions and calls of Stop so far
    newcomers,   \* participants that were not idle when the command was sent,
                 \* and had answered all that was asked before
    disturbed    \* participants whose answer the wait cannot count on

controller == <<wait, command, want, failed, sawRunning, late>>
clients == <<link, wire, queue, job, oldLoop, reports, old, finished>>
ghostVars == <<troubles, newcomers, disturbed>>
waitVars == <<controller, stopping, status, lost, clients, ghostVars>>

\* "none": there is no run.  "ready": between two steps of it; "idle": the
\* same, after a wait for idle clients.  "timed", "waiting": in a step.
\* "doomed": between two steps, the run is cancelled; "cancelled": in a step.
Waits == {"none", "ready", "idle", "timed", "waiting", "doomed", "cancelled"}
Statuses == {"registered", "running", "idle", "stopped", "gone"}
Messages == Commands \cup {StopMsg}
Reports == Statuses \ {"gone"}
Links == {"first", "up", "down", "new"}
OldLoops == {"none", "busy", "taken", "done"}

\* A command is taken, announced and worked on, done, and reported.  Once it
\* is cancelled it is NoCommand, and will not be reported.
Jobs == [stage : {"free", "taken", "working", "done"}, cmd : Commands \cup {NoCommand}]
Free == [stage |-> "free", cmd |-> NoCommand]

WaitTypeOK ==
    /\ wait \in Waits
    /\ command \in Commands \cup {NoCommand}
    /\ want \in SUBSET Members
    /\ failed \in BOOLEAN
    /\ sawRunning \in BOOLEAN
    /\ late \in BOOLEAN
    /\ stopping \in Nat
    /\ status \in [Members -> Statuses]
    /\ lost \in SUBSET Members
    /\ link \in [Members -> Links]
    /\ wire \in [Members -> Seq(Messages)]
    /\ queue \in [Members -> Seq(Commands)]
    /\ job \in [Members -> Jobs]
    /\ oldLoop \in [Members -> OldLoops]
    /\ reports \in [Members -> Seq(Reports)]
    /\ old \in [Members -> Seq(Reports)]
    /\ finished \in [Members -> Commands \cup {NoCommand}]
    /\ troubles \in 0..MaxTroubles
    /\ newcomers \in SUBSET Members
    /\ disturbed \in SUBSET Members

\* The controller and the clients have just started, and have met.
WaitInit ==
    /\ wait = "none"
    /\ command = NoCommand
    /\ want = {}
    /\ failed = FALSE
    /\ sawRunning = FALSE
    /\ late = FALSE
    /\ stopping = 0
    /\ status = [c \in Members |-> "registered"]
    /\ lost = {}
    /\ link = [c \in Members |-> "first"]
    /\ wire = [c \in Members |-> << >>]
    /\ queue = [c \in Members |-> << >>]
    /\ job = [c \in Members |-> Free]
    /\ oldLoop = [c \in Members |-> "none"]
    /\ reports = [c \in Members |-> << >>]
    /\ old = [c \in Members |-> << >>]
    /\ finished = [c \in Members |-> NoCommand]
    /\ troubles = 0
    /\ newcomers = {}
    /\ disturbed = {}

-----------------------------------------------------------------------------
(***************************************************************************)
(* The run                                                                 *)
(***************************************************************************)

\* Start looks at who is connected and selected, not at statuses.
StartRun ==
    /\ wait = "none"
    /\ want' = {c \in Members : status[c] # "gone"}
    /\ want' # {}
    /\ wait' = "ready"
    /\ failed' = FALSE
    /\ UNCHANGED <<command, sawRunning, late, stopping, status, lost, clients, ghostVars>>

\* finish: the plan is over, or was given up.
FinishRun ==
    /\ wait \in {"ready", "idle", "doomed", "cancelled"}
    /\ wait' = "none"
    /\ want' = {}
    /\ late' = FALSE
    /\ newcomers' = {}
    /\ UNCHANGED <<command, failed, sawRunning, stopping, status, lost, clients,
                   troubles, disturbed>>

\* Something the client was asked earlier may still make it report "idle".
Unanswered(c) ==
    \/ \E m \in Commands : m \in ToSet(wire[c]) \cup ToSet(queue[c])
    \/ job[c].cmd # NoCommand
    \/ oldLoop[c] = "done"
    \/ "idle" \in ToSet(reports[c]) \cup ToSet(old[c])

\* The session of the client is not settled.
Unsettled(c) == link[c] # "up" \/ oldLoop[c] # "none" \/ old[c] # << >>

\* The messages go to the clients that are connected.
Broadcast(m) ==
    wire' = [c \in Members |-> IF c \in want /\ link[c] # "down"
                                  THEN Append(wire[c], m)
                                  ELSE wire[c]]

\* runRamp and runSoftwarePhase: a step that takes its time, or one that waits.
SendCommand(kind) ==
    /\ wait \in {"ready", "idle", "doomed"}
    /\ command < MaxCommands
    /\ command' = command + 1
    /\ wait' = IF wait = "doomed" THEN "cancelled" ELSE kind
    /\ late' = FALSE
    /\ Broadcast(command + 1)
    /\ newcomers' = {c \in want : /\ wait' = "waiting"
                                  /\ status[c] # "idle"
                                  /\ ~Unanswered(c)}
    /\ disturbed' = {c \in want : wait' = "waiting" /\ Unsettled(c)}
    /\ UNCHANGED <<want, failed, sawRunning, stopping, status, lost,
                   link, queue, job, oldLoop, reports, old, finished, troubles>>

\* A step is over; what is local to the wait is gone.
Over(w) ==
    /\ wait' = w
    /\ sawRunning' = FALSE
    /\ disturbed' = {}
    /\ UNCHANGED <<command, want, failed, status, clients, troubles>>

TimedOver ==
    /\ wait = "timed"
    /\ Over("ready")
    /\ UNCHANGED <<late, stopping, lost, newcomers>>

\* Mutant: whoever is not running counts as idle.
AllIdle_NotRunning == \A c \in want : status[c] \notin {"running", "gone"}

AllIdle == \A c \in want : status[c] = "idle"
AnyRunning == \E c \in want : status[c] = "running"

\* Mutant: no way out for clients that were not seen running.
Done_NoFastPath == sawRunning /\ AllIdle

\* All are idle, and were seen running or have had their time.
Done == AllIdle /\ (sawRunning \/ late)

\* A tick of waitClientsIdle.
Poll ==
    /\ wait = "waiting"
    /\ \/ /\ Done
          /\ Over("idle")
       \/ /\ ~Done
          /\ sawRunning' = (sawRunning \/ AnyRunning)
          /\ UNCHANGED <<wait, command, want, failed, status, clients, troubles, disturbed>>
    /\ UNCHANGED <<late, stopping, lost, newcomers>>

TimePasses ==
    /\ wait = "waiting"
    /\ ~late
    /\ late' = TRUE
    /\ UNCHANGED <<wait, command, want, failed, sawRunning, stopping, status,
                   lost, clients, ghostVars>>

TimesOut ==
    /\ wait = "waiting"
    /\ late
    /\ late' = FALSE
    /\ newcomers' = {}
    /\ Over("ready")
    /\ UNCHANGED <<stopping, lost>>

\* The context of the run is cancelled, and a stop will be broadcast.
Abort ==
    /\ late' = FALSE
    /\ newcomers' = {}
    /\ stopping' = stopping + 1
    /\ wait' = CASE wait \in {"timed", "waiting"} -> "cancelled"
                 [] wait \in {"ready", "idle"}    -> "doomed"
                 [] OTHER                         -> wait
    /\ sawRunning' = FALSE
    /\ disturbed' = {}
    /\ UNCHANGED <<command, want, status, clients>>

\* Stop may be called again and again.
StopRun ==
    /\ wait # "none"
    /\ ~failed
    /\ troubles < MaxTroubles
    /\ troubles' = troubles + 1
    /\ Abort
    /\ UNCHANGED <<failed, lost>>

\* broadcastRun reads the participants when the stop is sent, which may be
\* after the end of the run it is meant for, and in the next run.
SendStop ==
    /\ stopping > 0
    /\ stopping' = stopping - 1
    /\ Broadcast(StopMsg)
    /\ disturbed' = IF wait = "waiting" THEN disturbed \cup want ELSE disturbed
    /\ UNCHANGED <<controller, status, lost, link, queue, job, oldLoop, reports,
                   old, finished, troubles, newcomers>>

\* OnClientRemoved: a participant of the active run was lost.
RemovalAborts(c) ==
    /\ c \in lost \cap want
    /\ ~failed
    /\ failed' = TRUE
    /\ lost' = lost \ {c}
    /\ Abort
    /\ UNCHANGED troubles

RemovalIgnored(c) ==
    /\ c \in lost
    /\ c \notin want \/ failed
    /\ lost' = lost \ {c}
    /\ UNCHANGED <<controller, stopping, status, clients, ghostVars>>

-----------------------------------------------------------------------------
(***************************************************************************)
(* The registry                                                            *)
(***************************************************************************)
SetStatus(c, s) == status' = [status EXCEPT ![c] = IF @ = "gone" THEN @ ELSE s]

\* A handler reads a status message; the id in it says whose status it is.
ReadReport(c) ==
    /\ reports[c] # << >>
    /\ SetStatus(c, Head(reports[c]))
    /\ reports' = [reports EXCEPT ![c] = Tail(@)]
    /\ UNCHANGED <<controller, stopping, lost, link, wire, queue, job, oldLoop, old,
                   finished, ghostVars>>

\* The handler of the connection before reads on, until it is closed.
ReadOldReport(c) ==
    /\ old[c] # << >>
    /\ SetStatus(c, Head(old[c]))
    /\ old' = [old EXCEPT ![c] = Tail(@)]
    /\ UNCHANGED <<controller, stopping, lost, link, wire, queue, job, oldLoop, reports,
                   finished, ghostVars>>

OldReportsLost(c) ==
    /\ old[c] # << >>
    /\ old' = [old EXCEPT ![c] = << >>]
    /\ UNCHANGED <<controller, stopping, status, lost, link, wire, queue, job, oldLoop,
                   reports, finished, ghostVars>>

\* The handler of a broken connection removes the client.
Lose(c) ==
    /\ link[c] = "down"
    /\ status[c] # "gone"
    /\ status' = [status EXCEPT ![c] = "gone"]
    /\ lost' = lost \cup {c}
    /\ old' = [old EXCEPT ![c] = << >>]
    /\ disturbed' = disturbed \ {c}
    /\ UNCHANGED <<controller, stopping, link, wire, queue, job, oldLoop, reports,
                   finished, troubles, newcomers>>

\* The client registers again, before or after its old handler has removed it.
Reregister(c) ==
    /\ link[c] = "down"
    /\ link' = [link EXCEPT ![c] = "new"]
    /\ status' = [status EXCEPT ![c] = "registered"]
    /\ UNCHANGED <<controller, stopping, lost, wire, queue, job, oldLoop, reports, old,
                   finished, ghostVars>>

-----------------------------------------------------------------------------
(***************************************************************************)
(* The clients                                                             *)
(***************************************************************************)
Report(c, s) == reports' = [reports EXCEPT ![c] = Append(@, s)]

ClientStep == UNCHANGED <<controller, stopping, status, lost, old, ghostVars>>

Welcomed(c) ==
    /\ link[c] \in {"first", "new"}
    /\ link' = [link EXCEPT ![c] = "up"]
    /\ Report(c, "registered")
    /\ ClientStep
    /\ UNCHANGED <<wire, queue, job, oldLoop, finished>>

\* When the queue is full its oldest command goes.
ReadCommand(c) ==
    /\ wire[c] # << >>
    /\ Head(wire[c]) # StopMsg
    /\ wire' = [wire EXCEPT ![c] = Tail(@)]
    /\ queue' = [queue EXCEPT ![c] =
                    Append(IF Len(@) < Capacity THEN @ ELSE Tail(@), Head(wire[c]))]
    /\ ClientStep
    /\ UNCHANGED <<link, job, oldLoop, reports, finished>>

\* The work is cancelled, unless the function that cancels it is not stored
\* yet, or that of the old loop is stored in its place.
Cancelled(j) == [j EXCEPT !.cmd = IF j.stage = "done" THEN @ ELSE NoCommand]

ReadStop(c) ==
    /\ wire[c] # << >>
    /\ Head(wire[c]) = StopMsg
    /\ wire' = [wire EXCEPT ![c] = Tail(@)]
    /\ \/ job' = [job EXCEPT ![c] = Cancelled(@)]
       \/ /\ job[c].stage = "taken" \/ oldLoop[c] # "none"
          /\ UNCHANGED job
    /\ IF link[c] = "first" THEN UNCHANGED reports ELSE Report(c, "stopped")
    /\ ClientStep
    /\ UNCHANGED <<link, queue, oldLoop, finished>>

\* The command loop takes a command.  Before the first welcome there is no
\* worker, and the command is dropped.
Take(c) ==
    /\ link[c] # "down"
    /\ job[c] = Free
    /\ queue[c] # << >>
    /\ queue' = [queue EXCEPT ![c] = Tail(@)]
    /\ job' = IF link[c] = "first" THEN job
              ELSE [job EXCEPT ![c] = [stage |-> "taken", cmd |-> Head(queue[c])]]
    /\ ClientStep
    /\ UNCHANGED <<link, wire, oldLoop, reports, finished>>

Announce(c) ==
    /\ job[c].stage = "taken"
    /\ job' = [job EXCEPT ![c].stage = "working"]
    /\ Report(c, "running")
    /\ ClientStep
    /\ UNCHANGED <<link, wire, queue, oldLoop, finished>>

\* The worker is back, and the context was not cancelled, or was.
EndWork(c) ==
    /\ job[c].stage = "working"
    /\ \/ /\ job[c].cmd # NoCommand
          /\ job' = [job EXCEPT ![c].stage = "done"]
          /\ finished' = [finished EXCEPT ![c] = job[c].cmd]
       \/ /\ job[c].cmd = NoCommand
          /\ job' = [job EXCEPT ![c] = Free]
          /\ UNCHANGED finished
    /\ ClientStep
    /\ UNCHANGED <<link, wire, queue, oldLoop, reports>>

ReportIdle(c) ==
    /\ job[c].stage = "done"
    /\ job' = [job EXCEPT ![c] = Free]
    /\ Report(c, "idle")
    /\ ClientStep
    /\ UNCHANGED <<link, wire, queue, oldLoop, finished>>

\* The session ends, which cancels the work.  The queue is the agent's, and
\* stays; the loop goes on until it looks at its context.
SessionEnds(c) ==
    /\ link[c] \in {"up", "new"}
    /\ oldLoop[c] = "none"
    /\ old[c] = << >>
    /\ troubles < MaxTroubles
    /\ troubles' = troubles + 1
    /\ link' = [link EXCEPT ![c] = "down"]
    /\ wire' = [wire EXCEPT ![c] = << >>]
    /\ old' = [old EXCEPT ![c] = reports[c]]
    /\ reports' = [reports EXCEPT ![c] = << >>]
    /\ oldLoop' = [oldLoop EXCEPT ![c] = IF job[c].stage \in {"taken", "done"}
                                         THEN job[c].stage ELSE "busy"]
    /\ job' = [job EXCEPT ![c] = Free]
    /\ disturbed' = IF wait = "waiting" THEN disturbed \cup ({c} \cap want) ELSE disturbed
    /\ UNCHANGED <<controller, stopping, status, lost, queue, finished, newcomers>>

\* What the old loop says goes out on the connection there is.
OldReport(c, s) == IF link[c] = "down" THEN UNCHANGED reports ELSE Report(c, s)

\* The old loop takes a command from the new session, whose work is cancelled
\* by that, and drops it: its own context is cancelled.
OldLoopTakes(c) ==
    /\ oldLoop[c] = "busy"
    /\ queue[c] # << >>
    /\ oldLoop' = [oldLoop EXCEPT ![c] = "taken"]
    /\ queue' = [queue EXCEPT ![c] = Tail(@)]
    /\ job' = [job EXCEPT ![c] = Cancelled(@)]
    /\ ClientStep
    /\ UNCHANGED <<link, wire, reports, finished>>

OldLoopSays(c) ==
    /\ oldLoop[c] \in {"taken", "done"}
    /\ oldLoop' = [oldLoop EXCEPT ![c] = "busy"]
    /\ OldReport(c, IF oldLoop[c] = "taken" THEN "running" ELSE "idle")
    /\ ClientStep
    /\ UNCHANGED <<link, wire, queue, job, finished>>

OldLoopEnds(c) ==
    /\ oldLoop[c] = "busy"
    /\ oldLoop' = [oldLoop EXCEPT ![c] = "none"]
    /\ ClientStep
    /\ UNCHANGED <<link, wire, queue, job, reports, finished>>

-----------------------------------------------------------------------------
\* What goes on as long as a session lasts.
Works(c) ==
    \/ ReadReport(c)
    \/ Welcomed(c)
    \/ ReadCommand(c)
    \/ ReadStop(c)
    \/ Take(c)
    \/ Announce(c)
    \/ EndWork(c)
    \/ ReportIdle(c)

Removal(c) == RemovalAborts(c) \/ RemovalIgnored(c)

OldLoop(c) == OldLoopTakes(c) \/ OldLoopSays(c) \/ OldLoopEnds(c)

WaitNext ==
    \/ StartRun
    \/ FinishRun
    \/ \E kind \in {"timed", "waiting"} : SendCommand(kind)
    \/ TimedOver
    \/ Poll
    \/ TimePasses
    \/ TimesOut
    \/ StopRun
    \/ SendStop
    \/ \E c \in Members :
          \/ Works(c)
          \/ Removal(c)
          \/ OldLoop(c)
          \/ ReadOldReport(c)
          \/ OldReportsLost(c)
          \/ Lose(c)
          \/ Reregister(c)
          \/ SessionEnds(c)

WaitSpec == WaitInit /\ [][WaitNext]_waitVars

\* The ticker ticks, time passes, removals are told, and the loops of a client
\* and the handler of its connection go on.  A client whose context is not
\* cancelled comes to the end of its work.  The deadline of the wait (minutes
\* to hours away) is not counted on, nor is a reconnection.
WaitFairSpec ==
    /\ WaitSpec
    /\ WF_waitVars(Poll)
    /\ WF_waitVars(TimePasses)
    /\ \A c \in Members : WF_waitVars(Removal(c)) /\ WF_waitVars(Works(c))

-----------------------------------------------------------------------------
(***************************************************************************)
(* Properties                                                              *)
(***************************************************************************)

\* The wait ends without its deadline, whether the clients were fast or slow,
\* seen running or not, idle or still busy when it began, and also when one is
\* lost for good; unless, while it waits, a participant is between two
\* sessions or a delayed stop reaches it.  Then its work may be cancelled, and
\* nobody reports that as idle.
WaitEnds == wait = "waiting" ~> (wait # "waiting" \/ disturbed # {})

\* A wait that ends with idle clients was not ended by what they did before: a
\* participant that was not idle when the command was sent, and owed no answer
\* to an earlier one, has finished this command.  That must survive whatever
\* comes in between: lost commands, stops of the run before, a new session.
NewcomersFinish ==
    wait = "idle" => \A c \in newcomers : finished[c] = command

\* "waits until every run participant reports idle after starting work": also
\* when the wait is over so soon that the clients' answers may still be missing.
EveryoneFinished ==
    wait = "idle" /\ ~late =>
        \A c \in want : status[c] # "gone" => finished[c] = command
=============================================================================
