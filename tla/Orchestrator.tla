---------------------------- MODULE Orchestrator ----------------------------
(***************************************************************************)
(* The orchestrator of the controller: one run at a time, driven by a      *)
(* goroutine of its own, steered by calls that arrive on other goroutines  *)
(* (HTTP handlers for Start, Stop, configuration and participants; the     *)
(* WebSocket handlers and the prune ticker for clients that come and go).  *)
(*                                                                         *)
(* The grain of the actions is the code's: one action per critical section *)
(* of Orchestrator.mu, and one per effect outside it (cancelling the       *)
(* context, handing an envelope to the Broadcaster, freezing or beginning  *)
(* the recording of metrics).  A call that does several of these has a     *)
(* program counter, and so has the goroutine of each run.                  *)
(*                                                                         *)
(* Abstractions.  Runs are numbered in the order they start.  A message is *)
(* its kind, the run its sender acts for, and the clients it goes to.      *)
(* Percentages and times are left out, a wait may end at any moment.  The  *)
(* registry and the map of open connections are one set, `registered'.     *)
(***************************************************************************)
EXTENDS Naturals, Sequences, FiniteSets

CONSTANTS
    Clients,   \* client ids
    Callers,   \* goroutines that call the orchestrator
    Phases,    \* protocol.Phase
    Cfgs,      \* configurations
    PlanOf,    \* the steps a run with this configuration goes through
    ActiveOf,  \* the enabled phases of a configuration, in order
    MaxRuns,   \* bound on the number of runs
    NoClient   \* stands for no client

Kinds == {"prep", "wait", "timed"}

Steps == [phase : Phases, kind : Kinds]

ASSUME OrchestratorAssumption ==
    /\ {"idle", "stopped"} \subseteq Phases
    /\ Cfgs # {}
    /\ PlanOf \in [Cfgs -> Seq(Steps)]
    /\ ActiveOf \in [Cfgs -> Seq(Phases)]
    /\ MaxRuns \in Nat
    /\ NoClient \notin Clients

Runs == 1..MaxRuns

NoRun == 0

VARIABLES
    \* Fields of Orchestrator, under its mutex.
    cfg,            \* the configuration of the next run, or of the active one
    selectedIDs,    \* participants selected for the next run
    autoSelectNew,  \* clients that register are selected
    runClientIDs,   \* participants of the active run (also runClientSet)
    running,        \* a run is active
    cancel,         \* the run whose context o.cancel cancels, or NoRun
    phase,          \* the phase shown
    statusText,     \* what the status line says
    failMessage,    \* a participant was lost: the run will end as FAILED
    phaseSpans,     \* the phases of the run so far, and whether each is open
    \* Around it.
    recording,      \* MetricsStore.recording
    registered,     \* clients connected and in the registry
    sent,           \* the last envelope handed to the Broadcaster
    ctxDone,        \* runs whose context is cancelled
    \* Goroutines.
    runNo,          \* the latest run
    run,            \* the goroutine of each run
    call,           \* what each caller is doing
    \* Ghosts.
    members,        \* the participants each run was started with
    stopSent        \* the clients sent a stop on behalf of each run

fields == <<cfg, selectedIDs, autoSelectNew, runClientIDs, running, cancel,
            phase, statusText, failMessage, phaseSpans>>
ghosts == <<members, stopSent>>
vars == <<fields, recording, registered, sent, ctxDone, runNo, run, call,
          ghosts>>

-----------------------------------------------------------------------------
StatusTexts == {"Ready", "Starting", "Phase", "Stopping", "Failed",
                "Stopped", "Completed"}

MessageKinds == {"none", "config", "metrics_interval", "command", "stop"}

\* The goroutine of a run: `ids' is its copy of runClientIDs, `err' what ended
\* the plan early, `text' what it will pass to finish.  Copies that go out of scope are reset.
RunPCs == {"none", "setPhase", "prep", "readIds", "send", "wait", "outcome",
           "freeze", "finish", "done"}

RunStates ==
    [pc : RunPCs, cfg : Cfgs, step : Nat, ids : SUBSET Clients,
     err : {"none", "ctx", "prep"}, text : StatusTexts]

\* A goroutine that has not been created yet.
NewRun(c) == [pc |-> "none", cfg |-> c, step |-> 1, ids |-> {}, err |-> "none",
              text |-> "Ready"]

\* A caller: `run' is the run it acts on, `client' the client it reports,
\* `ids' its copy of the participants.
CallPCs == {"idle", "begin", "announce", "cancel", "readIds", "sendStop",
            "freeze", "registered", "removed"}

CallStates ==
    [pc : CallPCs, run : Runs \cup {NoRun}, ids : SUBSET Clients,
     client : Clients \cup {NoClient}]

IdleCall == [pc |-> "idle", run |-> NoRun, ids |-> {}, client |-> NoClient]

Spans == [phase : Phases, open : BOOLEAN]

TypeOK ==
    /\ cfg \in Cfgs
    /\ selectedIDs \in SUBSET Clients
    /\ autoSelectNew \in BOOLEAN
    /\ runClientIDs \in SUBSET Clients
    /\ running \in BOOLEAN
    /\ cancel \in Runs \cup {NoRun}
    /\ phase \in Phases
    /\ statusText \in StatusTexts
    /\ failMessage \in BOOLEAN
    /\ phaseSpans \in Seq(Spans)
    /\ recording \in BOOLEAN
    /\ registered \in SUBSET Clients
    /\ sent \in [kind : MessageKinds, run : Runs \cup {NoRun},
                 to : SUBSET Clients]
    /\ ctxDone \in SUBSET Runs
    /\ runNo \in Runs \cup {NoRun}
    /\ run \in [Runs -> RunStates]
    /\ call \in [Callers -> CallStates]
    /\ members \in [Runs -> SUBSET Clients]
    /\ stopSent \in [Runs -> SUBSET Clients]

Init ==
    /\ cfg \in Cfgs
    /\ selectedIDs = {}
    /\ autoSelectNew = TRUE
    /\ runClientIDs = {}
    /\ running = FALSE
    /\ cancel = NoRun
    /\ phase = "idle"
    /\ statusText = "Ready"
    /\ failMessage = FALSE
    /\ phaseSpans = << >>
    /\ recording = FALSE
    /\ registered = {}
    /\ sent = [kind |-> "none", run |-> NoRun, to |-> {}]
    /\ ctxDone = {}
    /\ runNo = NoRun
    /\ run = [r \in Runs |-> NewRun(cfg)]
    /\ call = [h \in Callers |-> IdleCall]
    /\ members = [r \in Runs |-> {}]
    /\ stopSent = [r \in Runs |-> {}]

-----------------------------------------------------------------------------
(***************************************************************************)
(* Helpers                                                                 *)
(***************************************************************************)

At(h, pc) == call[h].pc = pc

\* Caller h goes on to its next step, or is done.
CallGoto(h, pc) == call' = [call EXCEPT ![h].pc = pc]
CallDone(h) == call' = [call EXCEPT ![h] = IdleCall]

RunGoto(r, pc) == run' = [run EXCEPT ![r].pc = pc]

\* closePhaseSpanLocked: the last span is closed.
closed(spans) ==
    [i \in DOMAIN spans |-> [spans[i] EXCEPT
        !.open = IF i = Len(spans) THEN FALSE ELSE @]]

\* Mutant: the span of the phase that is left stays open.
entered_LeavesOpen(p) ==
    IF p # phase \/ phaseSpans = << >>
    THEN Append(phaseSpans, [phase |-> p, open |-> TRUE])
    ELSE phaseSpans

\* The spans after setPhase enters phase p.
entered(p) ==
    IF p # phase \/ phaseSpans = << >>
    THEN Append(closed(phaseSpans), [phase |-> p, open |-> TRUE])
    ELSE phaseSpans

\* BroadcastTo: the envelope goes to those of ids that are connected.
BroadcastTo(ids, kind, r) ==
    sent' = [kind |-> kind, run |-> r, to |-> ids \cap registered]

\* Mutant: selected clients take part whether they are connected or not.
connectedSelected_Any == selectedIDs

\* The selected clients that are in the registry.
connectedSelected == selectedIDs \cap registered

-----------------------------------------------------------------------------
(***************************************************************************)
(* Start: the locked part takes the configuration and the participants;    *)
(* then recording begins, the participants are told their report interval, *)
(* and the goroutine of the run is created.                                *)
(***************************************************************************)
StartLocked(h) ==
    LET r == runNo + 1
        participants == connectedSelected
    IN  /\ At(h, "idle")
        /\ r \in Runs
        /\ ~running
        /\ participants # {}
        /\ ActiveOf[cfg] # << >>
        /\ runNo' = r
        /\ cancel' = r
        /\ running' = TRUE
        /\ runClientIDs' = participants
        /\ autoSelectNew' = FALSE
        /\ failMessage' = FALSE
        /\ phase' = Head(ActiveOf[cfg])
        /\ phaseSpans' = << >>
        /\ statusText' = "Starting"
        /\ run' = [run EXCEPT ![r] = NewRun(cfg)]
        /\ members' = [members EXCEPT ![r] = participants]
        /\ call' = [call EXCEPT ![h] = [pc |-> "begin", run |-> r,
                        ids |-> participants, client |-> NoClient]]
        /\ UNCHANGED <<cfg, selectedIDs, recording, registered, sent, ctxDone,
                       stopSent>>

\* metrics.Begin
StartBegin(h) ==
    /\ At(h, "begin")
    /\ recording' = TRUE
    /\ CallGoto(h, "announce")
    /\ UNCHANGED <<fields, registered, sent, ctxDone, runNo, run, ghosts>>

\* Where the run goroutine is when it reaches step k of its plan.
StepPC(r, k) == IF k \in DOMAIN PlanOf[run[r].cfg] THEN "setPhase"
                                                   ELSE "outcome"

StartAnnounce(h) ==
    LET r == call[h].run
    IN  /\ At(h, "announce")
        /\ BroadcastTo(call[h].ids, "metrics_interval", r)
        /\ RunGoto(r, StepPC(r, run[r].step))
        /\ CallDone(h)
        /\ UNCHANGED <<fields, recording, registered, ctxDone, runNo, ghosts>>

-----------------------------------------------------------------------------
(***************************************************************************)
(* Stop, and OnClientRemoved for a participant: a locked part that takes   *)
(* o.cancel away, then outside the lock the cancellation, a stop for       *)
(* whoever runClientIDs names by then, and the end of recording.           *)
(***************************************************************************)

\* The part of the locked section the two calls share.
interrupted(h, client, text) ==
    /\ cancel' = NoRun
    /\ phase' = "stopped"
    /\ statusText' = text
    /\ phaseSpans' = closed(phaseSpans)
    /\ call' = [call EXCEPT ![h] =
                   [pc |-> IF cancel # NoRun THEN "cancel" ELSE "readIds",
                    run |-> runNo, ids |-> {}, client |-> client]]

\* Mutant: Stop declares the run over before its goroutine has ended.
StopLocked_Unlocks(h) ==
    /\ At(h, "idle")
    /\ running
    /\ ~failMessage
    /\ running' = FALSE
    /\ interrupted(h, NoClient, "Stopping")
    /\ UNCHANGED <<cfg, selectedIDs, autoSelectNew, runClientIDs, failMessage,
                   recording, registered, sent, ctxDone, runNo, run, ghosts>>

StopLocked(h) ==
    /\ At(h, "idle")
    /\ running
    /\ ~failMessage
    /\ interrupted(h, NoClient, "Stopping")
    /\ UNCHANGED <<cfg, selectedIDs, autoSelectNew, runClientIDs, running,
                   failMessage, recording, registered, sent, ctxDone, runNo,
                   run, ghosts>>

\* OnClientRemoved when there is no run to fail, or nothing new to report.
RemovedIgnored(h) ==
    /\ At(h, "removed")
    /\ \/ ~running
       \/ failMessage
       \/ call[h].client \notin runClientIDs
    /\ selectedIDs' = selectedIDs \ {call[h].client}
    /\ CallDone(h)
    /\ UNCHANGED <<cfg, autoSelectNew, runClientIDs, running, cancel, phase,
                   statusText, failMessage, phaseSpans, recording, registered,
                   sent, ctxDone, runNo, run, ghosts>>

RemovedFailsRun(h) ==
    /\ At(h, "removed")
    /\ running
    /\ ~failMessage
    /\ call[h].client \in runClientIDs
    /\ selectedIDs' = selectedIDs \ {call[h].client}
    /\ failMessage' = TRUE
    /\ interrupted(h, call[h].client, "Failed")
    /\ UNCHANGED <<cfg, autoSelectNew, runClientIDs, running, recording,
                   registered, sent, ctxDone, runNo, run, ghosts>>

CallCancel(h) ==
    /\ At(h, "cancel")
    /\ ctxDone' = ctxDone \cup {call[h].run}
    /\ CallGoto(h, "readIds")
    /\ UNCHANGED <<fields, recording, registered, sent, runNo, run, ghosts>>

\* broadcastRun reads runClientIDs under the lock, ...
CallReadIds(h) ==
    /\ At(h, "readIds")
    /\ call' = [call EXCEPT ![h].pc = "sendStop", ![h].ids = runClientIDs]
    /\ UNCHANGED <<fields, recording, registered, sent, ctxDone, runNo, run,
                   ghosts>>

\* ... and sends after it.
CallSendStop(h) ==
    LET r == call[h].run
    IN  /\ At(h, "sendStop")
        /\ BroadcastTo(call[h].ids, "stop", r)
        /\ stopSent' = [stopSent EXCEPT ![r] =
                           @ \cup (call[h].ids \cap registered)]
        /\ call' = [call EXCEPT ![h].pc = "freeze", ![h].ids = {}]
        /\ UNCHANGED <<fields, recording, registered, ctxDone, runNo, run,
                       members>>

\* metrics.Freeze
CallFreeze(h) ==
    /\ At(h, "freeze")
    /\ recording' = FALSE
    /\ CallDone(h)
    /\ UNCHANGED <<fields, registered, sent, ctxDone, runNo, run, ghosts>>

-----------------------------------------------------------------------------
(***************************************************************************)
(* Clients come and go.  The registry changes first, and the orchestrator  *)
(* is told by a call of its own.                                           *)
(***************************************************************************)

\* A client registers, or registers again on a new connection.
Register(h, c) ==
    /\ At(h, "idle")
    /\ registered' = registered \cup {c}
    /\ call' = [call EXCEPT ![h].pc = "registered", ![h].client = c]
    /\ UNCHANGED <<fields, recording, sent, ctxDone, runNo, run, ghosts>>

OnClientRegistered(h) ==
    /\ At(h, "registered")
    /\ selectedIDs' = IF running \/ ~autoSelectNew
                         THEN selectedIDs
                         ELSE selectedIDs \cup {call[h].client}
    /\ CallDone(h)
    /\ UNCHANGED <<cfg, autoSelectNew, runClientIDs, running, cancel, phase,
                   statusText, failMessage, phaseSpans, recording, registered,
                   sent, ctxDone, runNo, run, ghosts>>

\* A connection is torn down, or a stale client pruned.  The entry of the
\* registry may be gone already: see ClientSessions.
Unregister(h, c) ==
    /\ At(h, "idle")
    /\ registered' = registered \ {c}
    /\ call' = [call EXCEPT ![h].pc = "removed", ![h].client = c]
    /\ UNCHANGED <<fields, recording, sent, ctxDone, runNo, run, ghosts>>

-----------------------------------------------------------------------------
(***************************************************************************)
(* Calls that are one critical section, and refused while a run is active. *)
(***************************************************************************)

\* SetConfig, and SetPhaseEnabled: which configurations follow which is the
\* subject of PhaseConfig.
SetConfig(new) ==
    /\ ~running
    /\ cfg' = new
    /\ BroadcastTo(registered, "config", NoRun)
    /\ UNCHANGED <<selectedIDs, autoSelectNew, runClientIDs, running, cancel,
                   phase, statusText, failMessage, phaseSpans, recording,
                   registered, ctxDone, runNo, run, call, ghosts>>

\* Mutant: the selection can change during a run.
selected_Unlocked(next, auto) ==
    /\ selectedIDs' = next
    /\ autoSelectNew' = auto
    /\ UNCHANGED <<cfg, runClientIDs, running, cancel, phase, statusText,
                   failMessage, phaseSpans, recording, registered, sent,
                   ctxDone, runNo, run, call, ghosts>>

\* The selection becomes `next'.
selected(next, auto) ==
    /\ ~running
    /\ selectedIDs' = next
    /\ autoSelectNew' = auto
    /\ UNCHANGED <<cfg, runClientIDs, running, cancel, phase, statusText,
                   failMessage, phaseSpans, recording, registered, sent,
                   ctxDone, runNo, run, call, ghosts>>

SelectAll == selected(registered, registered # {})

SelectNone == selected({}, FALSE)

\* The first n by host name: any part of the registry.
SelectFirstN == \E next \in SUBSET registered : selected(next, FALSE)

\* The selection counts as complete when it is as large as the registry.
complete(next) == next # {} /\ Cardinality(next) = Cardinality(registered)

SelectAddRemove(add, remove) ==
    LET next == (selectedIDs \cup (add \cap registered)) \ remove
    IN  /\ add \cup remove # {}
        /\ selected(next, complete(next))

SelectReplace(ids) ==
    LET next == ids \cap registered
    IN  selected(next, complete(next))

-----------------------------------------------------------------------------
(***************************************************************************)
(* The goroutine of run r.                                                 *)
(***************************************************************************)
RunAt(r, pc) == run[r].pc = pc

CurrentStep(r) == PlanOf[run[r].cfg][run[r].step]

\* Mutant: the goroutine stays at its step.
NextStep_Repeats(r) ==
    run' = [run EXCEPT ![r].pc = StepPC(r, run[r].step)]

NextStep(r) ==
    run' = [run EXCEPT ![r].step = @ + 1, ![r].pc = StepPC(r, run[r].step + 1)]

\* The goroutine gives up its plan.
GiveUp(r, err) == run' = [run EXCEPT ![r].err = err, ![r].pc = "outcome"]

RunSetPhase(r) ==
    /\ RunAt(r, "setPhase")
    /\ phase' = CurrentStep(r).phase
    /\ phaseSpans' = entered(CurrentStep(r).phase)
    /\ statusText' = "Phase"
    /\ RunGoto(r, IF CurrentStep(r).kind = "prep" THEN "prep" ELSE "readIds")
    /\ UNCHANGED <<cfg, selectedIDs, autoSelectNew, runClientIDs, running,
                   cancel, failMessage, recording, registered, sent, ctxDone,
                   runNo, call, ghosts>>

\* Unpacking, bundling or downloading on the controller: it succeeds, or it
\* fails, times out or is cancelled, which the caller does not tell apart.
RunPrepDone(r) ==
    /\ RunAt(r, "prep")
    /\ NextStep(r)
    /\ UNCHANGED <<fields, recording, registered, sent, ctxDone, runNo, call,
                   ghosts>>

RunPrepFailed(r) ==
    /\ RunAt(r, "prep")
    /\ GiveUp(r, "prep")
    /\ UNCHANGED <<fields, recording, registered, sent, ctxDone, runNo, call,
                   ghosts>>

\* Mutant: the broadcast goes to the selection instead of the participants.
RunReadIds_Selection(r) ==
    /\ RunAt(r, "readIds")
    /\ run' = [run EXCEPT ![r].pc = "send", ![r].ids = selectedIDs]
    /\ UNCHANGED <<fields, recording, registered, sent, ctxDone, runNo, call,
                   ghosts>>

RunReadIds(r) ==
    /\ RunAt(r, "readIds")
    /\ run' = [run EXCEPT ![r].pc = "send", ![r].ids = runClientIDs]
    /\ UNCHANGED <<fields, recording, registered, sent, ctxDone, runNo, call,
                   ghosts>>

RunSend(r) ==
    /\ RunAt(r, "send")
    /\ BroadcastTo(run[r].ids, "command", r)
    /\ run' = [run EXCEPT ![r].pc = "wait", ![r].ids = {}]
    /\ UNCHANGED <<fields, recording, registered, ctxDone, runNo, call, ghosts>>

\* The time of a timed step is up; the clients of a wait step are idle or its
\* deadline has passed.  The select of a timed step commits to the timer or to
\* the cancellation, whichever is first; the polling loop of a wait step can
\* find the clients idle after the cancellation.
RunWaitOver(r) ==
    /\ RunAt(r, "wait")
    /\ r \in ctxDone => CurrentStep(r).kind = "wait"
    /\ NextStep(r)
    /\ UNCHANGED <<fields, recording, registered, sent, ctxDone, runNo, call,
                   ghosts>>

RunWaitCancelled(r) ==
    /\ RunAt(r, "wait")
    /\ r \in ctxDone
    /\ GiveUp(r, "ctx")
    /\ UNCHANGED <<fields, recording, registered, sent, ctxDone, runNo, call,
                   ghosts>>

\* Mutant: the context is not consulted.
RunOutcome_IgnoresContext(r) ==
    /\ RunAt(r, "outcome")
    /\ run' = [run EXCEPT ![r].pc = "freeze",
                          ![r].text = IF failMessage THEN "Failed"
                                      ELSE "Completed"]
    /\ UNCHANGED <<fields, recording, registered, sent, ctxDone, runNo, call,
                   ghosts>>

\* The deferred function chooses the outcome.  It reads failMessage and then
\* the context; reading both at once is no loss, as finish looks at
\* failMessage again.
RunOutcome(r) ==
    /\ RunAt(r, "outcome")
    /\ run' = [run EXCEPT ![r].pc = "freeze",
                          ![r].text = IF failMessage THEN "Failed"
                                      ELSE IF r \in ctxDone THEN "Stopped"
                                      ELSE "Completed"]
    /\ UNCHANGED <<fields, recording, registered, sent, ctxDone, runNo, call,
                   ghosts>>

\* Mutant: finish leaves the recording on.
RunFreeze_Forgotten(r) ==
    /\ RunAt(r, "freeze")
    /\ RunGoto(r, "finish")
    /\ UNCHANGED <<fields, recording, registered, sent, ctxDone, runNo, call,
                   ghosts>>

\* finish freezes the metrics, ...
RunFreeze(r) ==
    /\ RunAt(r, "freeze")
    /\ recording' = FALSE
    /\ RunGoto(r, "finish")
    /\ UNCHANGED <<fields, registered, sent, ctxDone, runNo, call, ghosts>>

\* Mutant: a loss reported since the outcome was chosen is not looked at.
finalText_IgnoresLoss(r) == run[r].text

finalText(r) == IF failMessage THEN "Failed" ELSE run[r].text

\* ... and resets the orchestrator under the lock.
finish(r) ==
    /\ RunAt(r, "finish")
    /\ phaseSpans' = closed(phaseSpans)
    /\ statusText' = finalText(r)
    /\ running' = FALSE
    /\ runClientIDs' = {}
    /\ failMessage' = FALSE
    /\ phase' = "idle"
    /\ cancel' = NoRun
    /\ run' = [run EXCEPT ![r].pc = "done", ![r].text = "Ready"]
    /\ UNCHANGED <<cfg, selectedIDs, autoSelectNew, recording, registered, sent,
                   ctxDone, runNo, call, ghosts>>

-----------------------------------------------------------------------------
RunNext(r) ==
    \/ RunSetPhase(r)
    \/ RunPrepDone(r)
    \/ RunPrepFailed(r)
    \/ RunReadIds(r)
    \/ RunSend(r)
    \/ RunWaitOver(r)
    \/ RunWaitCancelled(r)
    \/ RunOutcome(r)
    \/ RunFreeze(r)
    \/ finish(r)

\* A call that has begun goes on.
CallNext(h) ==
    \/ StartBegin(h)
    \/ StartAnnounce(h)
    \/ RemovedIgnored(h)
    \/ RemovedFailsRun(h)
    \/ CallCancel(h)
    \/ CallReadIds(h)
    \/ CallSendStop(h)
    \/ CallFreeze(h)
    \/ OnClientRegistered(h)

\* Users and clients.
Environment ==
    \/ \E h \in Callers : StartLocked(h) \/ StopLocked(h)
    \/ \E h \in Callers, c \in Clients : Register(h, c) \/ Unregister(h, c)
    \/ \E new \in Cfgs : SetConfig(new)
    \/ SelectAll
    \/ SelectNone
    \/ SelectFirstN
    \/ \E add, remove \in SUBSET Clients : SelectAddRemove(add, remove)
    \/ \E ids \in SUBSET Clients : SelectReplace(ids)

Next ==
    \/ \E r \in Runs : RunNext(r)
    \/ \E h \in Callers : CallNext(h)
    \/ Environment

Spec == Init /\ [][Next]_vars

\* Goroutines that can run are scheduled; waits and work on the controller end
\* (every one has a timeout).  Nobody has to start or stop anything.
FairSpec ==
    /\ Spec
    /\ \A r \in Runs : WF_vars(RunNext(r))
    /\ \A h \in Callers : WF_vars(CallNext(h))

-----------------------------------------------------------------------------
(***************************************************************************)
(* Properties                                                              *)
(***************************************************************************)
Alive(r) == run[r].pc \notin {"none", "done"}

\* At most one run goroutine exists, it belongs to the latest run, and while it
\* exists the orchestrator knows that a run is active.  (running stays TRUE
\* "until finish() so participant selection stays locked".)
OneRunAtATime == \A r \in Runs : Alive(r) => running /\ r = runNo

\* Metrics are recorded during runs only, whatever calls are still on their
\* way: "afterward the history is frozen until the next Start".
RecordingOnlyInRun == recording => running

\* A participant that is gone while its run is active has failed the run, or
\* the call that will do so is on its way.  Joins, losses, returns and starts
\* may interleave in any way.
LostParticipantNoticed ==
    running => \A c \in runClientIDs \ registered :
                  \/ failMessage
                  \/ \E h \in Callers : At(h, "removed") /\ call[h].client = c

\* A command goes to exactly the participants its run was started with, though
\* every broadcast reads them anew.
CommandsReachTheRun ==
    \A r \in Runs : RunAt(r, "send") => run[r].ids = members[r]

\* While a run is active its configuration and participants do not change, and
\* the selection for the next run only loses clients that are gone.
LockedWhileRunning ==
    [][running /\ running' => /\ cfg' = cfg
                             /\ runClientIDs' = runClientIDs
                             /\ selectedIDs' \subseteq selectedIDs
                             /\ ~autoSelectNew']_vars

\* What the status line says after a run is what happened to it: "Completed"
\* only if the goroutine went through its whole plan or a preparation failed,
\* and "Stopped" only if the context was cancelled.
OutcomeIsTrue ==
    ~running /\ runNo # NoRun =>
        /\ statusText = "Completed" =>
               \/ run[runNo].step \notin DOMAIN PlanOf[run[runNo].cfg]
               \/ run[runNo].err = "prep"
        /\ statusText = "Stopped" => runNo \in ctxDone
        /\ statusText \in {"Completed", "Stopped", "Failed"}

\* The chart's phase spans: only the last is ever open; it is open exactly
\* while its phase is the one shown; nothing is open between runs.
SpansFollowPhase ==
    LET n == Len(phaseSpans)
    IN  /\ \A i \in 1..(n - 1) : ~phaseSpans[i].open
        /\ n > 0 => /\ phaseSpans[n].open => running /\ phaseSpans[n].phase = phase
                    /\ running /\ phase # "stopped" => phaseSpans[n].open

-----------------------------------------------------------------------------
(***************************************************************************)
(* Refinement of RunLifecycle.  o.cancel is taken away by the first Stop,  *)
(* so a run that is active without it is being stopped.                    *)
(***************************************************************************)
modeBar == IF ~running THEN "idle"
           ELSE IF failMessage THEN "failing"
           ELSE IF cancel = NoRun THEN "stopping"
           ELSE "active"

resultBar == IF running THEN "none" ELSE statusText

Lifecycle == INSTANCE RunLifecycle WITH
    mode <- modeBar, participants <- runClientIDs, result <- resultBar

\* Runs start, are stopped, fail and end as RunLifecycle allows.  In particular
\* a run that lost a participant ends as "Failed" whatever happens afterwards
\* ("Losing a run participant fails the run"), a run nobody stopped ends as
\* "Completed", and its participants are the same from start to end.
ImplementsLifecycle == Lifecycle!LSpec

\* Under fair scheduling every run ends, too, whether or not it is stopped or
\* loses clients, and wherever its goroutine is when that happens.
ImplementsFairLifecycle == Lifecycle!LFairSpec

-----------------------------------------------------------------------------
(***************************************************************************)
(* Claims of the comments and documents that the code does not keep        *)
(***************************************************************************)

Quiet == ~running /\ \A h \in Callers : At(h, "idle")

\* "Stop cancels the run and tells every client to delete" its files.
StopReachesParticipants ==
    Quiet /\ statusText = "Stopped" =>
        members[runNo] \cap registered \subseteq stopSent[runNo]

\* A client that was told to stop gets no further command of that run.
NoCommandAfterStop ==
    [][sent'.kind = "command" /\ sent # sent'
         => sent'.to \cap stopSent[sent'.run] = {}]_vars

\* "runClientIDs is frozen at Start; commands/stop go only to these clients."
StopStaysInItsRun ==
    \A h \in Callers : At(h, "sendStop") => call[h].ids \subseteq members[call[h].run]

\* "Recording is active only while a test run is in progress; afterward the
\* history is frozen until the next Start": a run nobody stopped is recorded.
RunIsRecorded ==
    \A r \in Runs : Alive(r) /\ cancel = r /\ run[r].pc \notin {"freeze", "finish"}
                       => recording

\* "Start runs this sequence": a completed run went through its whole plan.
CompletedRunsWholePlan ==
    ~running /\ statusText = "Completed" =>
        run[runNo].step \notin DOMAIN PlanOf[run[runNo].cfg]

\* "autoSelectNew ... (off after Start or a partial selection)": it comes back
\* on only when every registered client is selected.
AutoSelectNeedsAll ==
    [][~autoSelectNew /\ autoSelectNew' => registered \subseteq selectedIDs']_vars
=============================================================================
