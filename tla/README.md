# home-bench: verification models

home-bench stresses a distributed file system: a *controller* (web UI, HTTP API, WebSocket server) drives a
fleet of *clients* through the phases of a benchmark and collects their metrics. This directory holds TLA+
models of it, TLC configurations that check them, and proofs for TLAPS.

    tlc -workers 2 -config Orchestrator.cfg MCOrchestrator.tla     # a model-checking run
    tlapm OrchestratorProofs.tla                                   # a proof module

`PROJECT.json` lists the runs, a mutant of the model for every property a run checks, and for every definition
the lines of code it stands for.

## 1. The system

| Part | State it keeps | Operations | Hard behaviour |
|---|---|---|---|
| Phase plan (`protocol.go`, `Orchestrator.run`) | none | which phases a configuration has, which are disabled, the steps of a run | two places decide which phases run |
| Configuration (`orchestrator.go`, `configfile.go`) | `o.cfg`, the saved file | `SetConfig`, `SetPhaseEnabled`, load, save | a shared array, failing saves, restarts, files that cannot be read |
| Orchestrator (`orchestrator.go`, `participants.go`) | selection, participants, `running`, `cancel`, phase, status, spans | `Start`, `Stop`, `OnClientRegistered`, `OnClientRemoved`, `UpdateParticipants`, the run goroutine, `finish` | every call is on a goroutine of its own, and does part of its work after it gave the mutex up |
| Waiting for clients (`waitClientsIdle`) | the status of each client, whether one was seen running | poll, deadline, cancel | the last report of a client may belong to the phase, the run or the connection before; cancelled work is not reported at all |
| Client sessions (`server.go`, `registry.go`) | map of connections, registry, per connection the client id | register, reconnect, teardown, prune, status | old and new handler of one client overlap |
| Send queue (`server.go`) | 64 messages per connection | enqueue, drop the oldest, write | senders and the writer use no lock between look, drop and second try |
| Metrics store (`metrics.go`) | channel, recording flag, buckets, history, totals, latencies | `Begin`, `Freeze`, `Add`, `apply`, flush | late, early and out-of-order samples |
| Counters and samples (`worker.go`, `agent.go`) | counters, latency histograms | observe, count, `SnapshotAndReset`, send | latencies and counters are taken one after the other |
| Latency histograms (`latency.go`) | bins | observe, merge | the overflow bin |
| UI push (`server.go`) | pending, flushing, last push, subscribers | `requestUI`, `flushUI`, `handleUIWS` | throttling must not lose the last state |
| Agent (`agent.go`) | command queue, `runCancel`, worker, connection | session loop, command loop, stop, reconnect | stop against a command on its way; two command loops |
| Worker, ledger (`worker.go`) | created files, next index, delete cursor, files on disk | the phases, cleanup | two goroutines and the cleanup share the ledger, which outlives runs and directories |
| Software preparation (`software/`, `software.go`) | the shared directory under each prefix | fetch, copy, use, remove in turn and in the background | who removes the directory, and when |
| Prefix selection, web UI, commands | - | a hash; rendering; flags | - |

Interaction: HTTP handlers call the orchestrator; the WebSocket handler of a client calls the registry, the
orchestrator and the metrics store; the orchestrator calls back into the server to broadcast, which puts
messages into the queues of the connections; the goroutine of the run polls the registry; the prune loop takes
entries out of the registry and tells the orchestrator; agents receive commands and stops and answer with status
messages and samples; controller and clients share a directory on the file system.

What makes each part correct:

- *Phase plan, configuration*: the phases shown as enabled are those a run goes through; the list of disabled
  phases stays closed under groups; what was saved comes back.
- *Orchestrator*: one run at a time; a run has fixed participants; each run ends, and its outcome is what
  happened to it; a lost participant fails its run; metrics are recorded in runs only.
- *Waiting*: it ends when everybody has finished, and not by what belongs to another command, run or session.
- *Sessions*: a client is served on one connection; registry, selection and connections agree when all is quiet.
- *Send queue*: messages of one sender keep their order; the latest message is not the one that is dropped;
  what is queued is written.
- *Agent*: one command at a time, in order; the newest is kept; a stop stops and cleans up for good.
- *Worker*: an index names one file; each scan finds what is left; readers read files that are whole; nothing is
  left after a stop or the final delete.
- *Software tree*: a command finds what it is about; no tree is forgotten.
- *Metrics*: no operation lost or counted twice on its way from the client to the charts; charts, totals and
  histograms agree, and are frozen after a run.
- *UI push*: half a second between pushes; the last change is always shown.

## 2. Modules

| Module | Models | Grain of its actions |
|---|---|---|
| `PhasePlan` | phases, groups, plans, the steps of a run | pure definitions |
| `PhaseConfig` | the configuration, its file, clicks, restarts | a call, as it holds the mutex throughout |
| `RunLifecycle` | *abstract*: runs start, are stopped, lose clients, end | - |
| `Orchestrator` | runs and everything that happens to them | a critical section of `Orchestrator.mu`, or an effect outside it |
| `WaitIdle` | a phase that lasts as long as the clients need, over several runs and sessions, with their reports | a poll, a message, a critical section, a step of a client |
| `ClientSessions` | handlers of connections, registry, prune loop | a critical section of one of the three locks |
| `SendQueue` | senders, writers and queues of a client's connections | a channel operation, a critical section, a write |
| `Agent` | an agent's sessions, command loops, queue, stops | a critical section, a channel operation, a step of a worker |
| `FileLedger` | the ledger, and a reference definition of its scan | pure definitions, one for a method |
| `Worker` | the loops of the phases on the ledger and the files, cleanups | a ledger call, a file operation, a look at the context |
| `SoftwareTree` | the shared directory, the run that prepares it, clients that use it, removals | a copy's beginning and end, a removal, a message, a step of a client |
| `Latency` | histograms | pure definitions |
| `MetricsStore` | buckets, history and totals of samples | a critical section of `MetricsStore.mu` |
| `MetricsPath` | a client's counters and samples, composed with `MetricsStore` and `Latency` | an atomic operation, a critical section, a message |
| `UIPush` | the throttle of UI updates, and browsers | a critical section of `uiMu` or `mu`, a write |
| `...Proofs` | theorems | - |
| `MC...` | constants for TLC | - |

Correspondence, where it is not one operator for one function of the same name:

- *Orchestrator*. Each call that works outside the mutex has a program counter in `call[h]`: `Start` is
  `StartLocked`, `StartBegin` (`metrics.Begin`), `StartAnnounce` (`go o.run`); `Stop` is `StopLocked`,
  `CallCancel`, `CallReadIds`, `CallSendStop`, `CallFreeze`; a client's removal is `Unregister`, then
  `RemovedIgnored` or `RemovedFailsRun` and the same calls as in `Stop`. The goroutine of run `r` is `run[r]`;
  it goes through the steps of `PlanOf[cfg]`, each of which sets the phase, reads the participants, sends, and
  waits (or prepares something on the controller). `RunOutcome` and `finish` are the deferred function and
  `finish`, which look at the state in separate critical sections.
- *ClientSessions*. `handleClientWS` is `ReadConfig`, `Upsert`, `OnClientRegistered`, `Publish`, `Welcome`, then
  reading; its deferred function is `Teardown` and `OnClientRemoved`. `StartBackground` is `Prune`,
  `ClosePruned` and `TellPruned`.
- *SendQueue*. `enqueue` is `Try`, `DropOldest`, `Retry`; `writeLoop` is `TakeMessage`, `Write`, `Exit`, the
  first two of which may be chosen although `done` is closed, as in a `select`. The handler of a connection sends
  the welcome, and is a sender like the others.
- *Agent*. `Run` and `session` are the main goroutine, `main.pc`; `commandLoop` of session `l` is `loop[l]`.
  `stopWork` is two steps wherever it is called: the function is taken under the lock and called after it.
  `select` in the command case is `ReadCommand`, `DropOldest`, `PutCommand`, between which a loop may take a
  command. A worker is `BeginWrite`/`EndWrite`: it looks at its context before an operation, not during one.
- *FileLedger, Worker*. A file is its index. `NextExistingPath` is a recursive function whose turn is `Look`, the
  body of the loop. The loops of `runCreate`, `runDelete` and `runBandwidth` share their beginning (`Go`, `End`)
  and branch on the phase in `Turn`; `runBandwidth` of the read-write phase runs on two lanes. A chunk that was
  written leaves the file open (`disk[f] = l`), whole or broken; a failing operation may leave either content.
- *SoftwareTree*. `Steps(plan)` are the steps of `run` that touch the directory, for a choice of packages,
  bundles and archives. The three preparations have one shape: fetch once, then copy under each prefix
  (`BeginCopy`, `EndCopy`); only extraction looks at the context. `RemoverStep` is the goroutine of
  `cleanupSoftwareAsync`, which goes on into later runs.
- *PhaseConfig*. `NewOrchestrator` has three branches: the file is loaded, or there is none and the default is
  saved, or `LoadConfigFile` fails on the file there is (any file may fail to be read; `Malformed` is one that
  cannot be parsed) and the default is used and not saved.
- *WaitIdle*. The goroutine of the run is `wait`: between steps, in a step that takes its time (`sendAndWait`), or in
  `waitClientsIdle`. `Poll` is one tick of the latter; `late` stands for the two seconds after `grace`. `Start` looks
  at no status, so a run begins with whatever the one before has left under way. `commandLoop` is `Take`, `Announce`,
  `EndWork`, `ReportIdle`; a cancelled command is a job without one, and is not reported. `SessionEnds` leaves the
  loop of the session behind as `oldLoop`, and the reports of its connection as `old`; `Reregister` may come before
  the old handler has noticed (`Lose`), and then nobody is lost. The rest of a `Stop` or a loss, the broadcast, is
  counted in `stopping` and may come as late as in the next run. `want` is read when each command is sent, as the
  run's participants are fixed (`LockedWhileRunning`).
- *MetricsStore, MetricsPath*. A sample counts operations for each second of its window in fractions (`Unit`), so
  that they can be accounted for one by one; the other counters take the same path. `SnapshotAndReset` is
  `TakeLatencies`, `SwapCounters`; the worker's `Observe` and `CountOp` come before, between and after them.
- *UIPush*. A snapshot is a version number, and time a counter that stops at the half second.

Ghost variables (named as such in the modules) remember what properties need; no action looks at them.

## 3. Runs

All passing runs explore the complete state space of their bounds.

| Run | Bounds | Shows |
|---|---|---|
| `PhaseConfig` | three submitted lists (unordered, partial groups, foreign phases), four buttons, ramp 2; no file, a malformed one, failing loads and saves | the list of disabled phases stays well formed; `run()` and `ActivePhaseOrder` agree; what was saved comes back |
| `Orchestrator` | 2 clients, 1 caller, 1 run, two plans with every kind of step; `FairSpec` | spans, commands, locks; it implements `RunLifecycle` *with* its fairness: every run ends |
| `OrchestratorRuns` | 1 client, 2 callers, 2 runs, a plan that prepares and waits | losses, outcomes, recording and lifecycle while calls of the first run linger into the second |
| `ClientSessions` | 1 client, 3 connections, 2 configurations; `FairSpec` | served once; selection and registry agree with connections; abandoned entries go |
| `SendQueue` | 2 senders with 2 messages each, 2 connections with a welcome each, capacity 2; `FairSpec` | order is kept; the latest message is not dropped; queues empty |
| `Agent` | 2 sessions, 2 commands, queue of 1, 1 stop; `FairSpec` | one live worker, order, the newest is kept, the reader never blocks, a stop cancels (first session), old loops end |
| `Worker` | 2 indices and the sparse file, 2 runs, 1 stop; `FairSpec` | indices are fresh; the scan is the reference scan; readers find whole files; few files survive a stop; the final delete gets every file |
| `SoftwareTree` | 1 client, 2 prefixes, 2 runs with any choice of phases | commands find their artifact; no tree is forgotten |
| `WaitIdle` | 1 client, 2 commands, any number of runs, a queue of one, 2 stops or broken sessions; `WaitFairSpec` | the wait ends without its deadline; newcomers have finished, whatever the first command or run has left under way |
| `MetricsPath` | 2 operations, one below and one above the last edge; 2 samples of 1 or 2 s; clocks one second off; 2 runs, 3 s, a channel of 1, retention and catch-up of 2 s | nothing lost or counted twice; histograms add up; charts and totals match; charts are complete and frozen after a run |
| `UIPush` | 2 browsers, 2 potential flushers, 1 change; `PushFairSpec` | pushes are spaced; every change is shown |
| `OrchestratorStopLost` | 1 client, 1 caller, 1 run | a violation, see below |

Why these bounds are enough to be interesting:

- Two callers and two runs let every part of a `Stop`, a loss or a `Start` come before, during or after any part
  of another one, in its own run or the next. What they show of one client, the proofs show of any number.
- Three connections are an old one, its replacement, and one more that meets the teardown of either. Two
  clients meet only in the prune loop and in broadcasts; the safety properties are proved for any number.
- A queue of one command is full with two, so the three steps of a send to a full queue are reached. With a
  capacity of two, five messages and two senders, a sender can find its queue refilled between drop and retry,
  and the writer can empty it in between; the proofs hold for any capacity.
- Two files are enough for a cursor in the middle, a wrap, a file that has gone, and an index that comes back
  after a clear; two runs for what a ledger carries from one to the next, directory and all.
- Two prefixes let a preparation or a removal be between them; two runs let a background removal of the first
  meet the preparation of the second.
- The wait needs two commands for one that is waited for while the other, of the same run or the one before, is in
  the queue, worked on, reported or stopped. Two troubles are a stop and a broken session, or a stop whose broadcast
  is delayed and one that is not. Two clients, one that is seen running while the other is idle, need a smaller
  instance: `WaitIdleTwo.cfg` (one command, one stop or broken session) checks the same two properties, and is not
  among the runs of `PROJECT.json`; both together are out of TLC's reach, with tens of millions of states. That
  newcomers have finished is proved for any number of clients, commands and broken sessions.
- A window of two seconds with clocks off by one reaches open, flushed, trimmed, future and unseen seconds.

Deadlock is checked in the runs of `PhaseConfig`, `Orchestrator`, `ClientSessions` and `UIPush`. It is not in
the others, which stop where the bounds on sessions, indices, messages, runs, samples and time are reached.

Fairness, and why the code justifies it:

- `Orchestrator`: goroutines of runs and of calls are scheduled. Each wait of a run has a deadline or a timer,
  preparations have timeouts, and a cancelled context ends both. Nobody has to call `Start` or `Stop`.
- `ClientSessions`: handlers are scheduled, their reads have a deadline, and the prune loop ticks.
- `SendQueue`: senders and writers are scheduled. A write has a deadline, after which it fails.
- `Agent`: goroutines are scheduled. A command ends (strong fairness of `WorkEnds`: a worker that writes again
  and again looks at its deadline in between). Nothing is asked of the controller.
- `Worker`: the goroutines of the loops are scheduled, and a loop that finds its context cancelled ends. That the
  time of a command is over is *not* assumed, so the final delete may take as long as it needs; its rate is
  positive, as with a rate of zero `runDelete` only sleeps. A removal that is tried again and again succeeds at last
  (strong fairness of `RemoveFile`): this is an assumption about the file system, which the code cannot give. A file
  that can never be removed is found first by each walk, and keeps those after it.
- `WaitIdle`: the ticker ticks, time passes, a lost participant is told to `OnClientRemoved`, and the loops of a
  client and the handler of its connection go on; a worker whose context is not cancelled comes to an end and is
  reported. That a *cancelled* one is reported is not assumed, as `commandLoop` does not report it (`agent.go:225`);
  nor are the deadline of the wait, a reconnection, or that a broken connection is noticed. `WaitEnds` therefore says
  nothing of a wait during which a participant is between two sessions or is reached by a delayed stop (the ghost
  `disturbed`): its work may be cancelled without a word, and such a wait does last to its deadline.
- `UIPush`: time passes, goroutines run, and the prune loop calls `requestUI` every two seconds. Without the
  last one a change whose request came too early would not be shown: no other code takes it up.

### Where the code does otherwise than it says

One run expects a violation: `OrchestratorStopLost`. "**Stop** cancels the run and tells every client to delete
..." (`README.md:43`), but the run goroutine can end between the cancel and the broadcast of `Stop`, and clears
the participants: nobody is told.

The `...Claims` configurations hold further statements that the code does not keep, for whoever works on the
lines in question. They are not among the runs of `PROJECT.json`. TLC stops at the first violation; with the
others taken out of the configuration it finds each.

| Configuration | Property | Statement | What happens |
|---|---|---|---|
| `OrchestratorClaims` | `NoCommandAfterStop` | a stop is the last thing its run sends | a command that is about to be sent comes after it |
| | `StopStaysInItsRun` | a stop goes to the participants of its run | one that is delayed goes to the next run's |
| | `RunIsRecorded` | what happens in a run is recorded | a `Freeze` that is delayed ends the recording of the next run |
| | `CompletedRunsWholePlan` | a completed run has gone through its plan | a failed preparation ends the run as "Completed" |
| | `AutoSelectNeedsAll` | automatic selection is on only when all are selected | selection and registry are compared by size only |
| `PhaseConfigClaims` | `RefusedCallChangesNothing` | a refused call has no effect | a refused click rewrites the shared array of disabled phases |
| `ClientSessionsClaims` | `ReconnectIsNotWiped` | "A reconnect with the same ID must not be wiped by the old handler." (`server.go:351`) | the old handler tears down after the new one wrote the registry and before it wrote the map |
| | `ClientsHaveTheConfig` | clients have the latest configuration | one that is set during a registration misses the client |
| `SendQueueClaims` | `DropMakesRoom` | "Drop oldest queued message to make room" (`server.go:130`) | the writer has made room since the look: a message is dropped in vain |
| `AgentClaims` | `StopCancelsWorkLater` | "Stop cancels workCtx" (`agent.go:224`) | the loop of the old session overwrites `runCancel`; the stop cancels the wrong context |
| | `LatestReplacesQueued` | a new command replaces what is queued | it replaces the oldest only |
| | `StoppedIsNotClobbered` | "don't clobber "stopped" with idle" (`agent.go:224`) | a queued or finishing command reports after "stopped" |
| | `CleanedUpStaysClean` | a directory that was cleaned up stays so | a write under way recreates it |
| `WorkerClaims` | `FinalScanFinds` | "NextExistingPath finds the next ledger path that still exists." (`worker.go:213`) | in the final delete the cursor starts where the delete phase left it, and does not wrap; the walk through the directory finds the rest |
| | `ReaderReads` | "No bandwidth files yet — seed one" (`worker.go:646`) | in a run without a create phase the list may name files of an earlier run: the reader neither reads nor seeds |
| `SoftwareTreeClaims` | `TreeOutlivesWork` | the tree "is removed by the controller after warm completes" (`software.go:86`) | a wait that is over early lets the removal come before the work is done |
| | `RunsKeepTheirTree` | the background removal does not disturb (`orchestrator.go:558`) | that of the run before removes the tree of the next |
| | `StopLeavesNoTree` | "Cleanup removes test host files and any software tree" (`worker.go:878`) | the controller copies on after the clients have cleaned up |
| `WaitIdleClaims` | `EveryoneFinished` | "waits until every run participant reports idle after starting work" (`orchestrator.go:791`) | one client has finished, another has not begun and counts as idle |
| `MetricsPathClaims` | `HistoryInOrder` | buckets go "into history in time order" | seconds before the first of the history are appended at its end |
| | `FrozenIsSealed` | `Freeze` "seals open buckets into history" | the bucket of a client whose clock is ahead stays open |
| | `TotalsAreOfTheRun` | totals are "during the current (or last) run" | a sample that waits over the next `Begin` counts in the next run |

Two more disagreements need no model: `README.md:44` of the repository speaks of a 30-minute history, and
`HistoryRetention` is 60 minutes; `README.md:35-37` says that bandwidth writes rewrite paths, and the code
writes each file under a path of its own.

The type invariants are proved, and are in no run.

## 4. Proofs

Each proof module proves its theorems for all values of the constants that satisfy the assumption of its
component's module (well-typed plans, special values apart from the others, positive bounds). Every safety
property that a run checks is a theorem. Two of the modules prove about a second, smaller component as well
(`ServerProofs` about `UIPush`, `OrchestratorProofs` about `WaitIdle`): they extend both, which is why the names of
the smaller one carry a prefix, as in `PushSpec` and `WaitSpec`.

| Module | Theorem | Property |
|---|---|---|
| `OrchestratorProofs` | `TypeCorrect` | `TypeOK` |
| | `SingleRun` | `OneRunAtATime` |
| | `SpansAreThoseOfThePhases` | `SpansFollowPhase` |
| | `FrozenBetweenRuns` | `RecordingOnlyInRun` |
| | `CommandsStayInTheRun` | `CommandsReachTheRun` |
| | `NothingChangesDuringARun` | `LockedWhileRunning` |
| | `NoLossUnnoticed` | `LostParticipantNoticed` |
| | `OutcomesAreTrue` | `OutcomeIsTrue` |
| | `OrchestratorImplementsLifecycle` | `ImplementsLifecycle` |
| | `WaitTypeCorrect` | `WaitTypeOK` |
| | `NewcomersHaveFinished` | `NewcomersFinish` |
| `ServerProofs` | `TypeCorrect` | `TypeOK` |
| | `ServedOnOneConnection` | `ServedOnce` |
| | `SelectionIsConnected` | `SelectedAreConnected` |
| | `EntriesAreConnected` | `NoAbandonedEntry` |
| | `PushTypeCorrect` | `PushTypeOK` |
| | `PushesSpaced` | `PushesAreSpaced` |
| `SendQueueProofs` | `TypeCorrect` | `TypeOK`, with the capacity of the queues |
| | `OwnMessageGoesThrough` | `OwnLossNeedsRival` |
| | `OrderKept` | `OrderIsKept` |
| | `FreshestIsThere` | `FreshestSurvives` |
| `AgentProofs` | `TypeCorrect` | `TypeOK`, with the capacity of the queue |
| | `WorkersAreOne` | `OneLiveWorker` |
| | `PutsAtOnce` | `PutNeverWaits` |
| | `WorkBeginsInOrder` | `BeginInOrder` |
| | `LatestStays` | `LatestIsKept` |
| | `StopsCancel` | `StopCancelsWork` |
| `SoftwareTreeProofs` | `TypeCorrect` | `TypeOK` |
| | `NoTreeIsForgotten` | `TreesGo` |
| | `CommandsFindTheirArtifact` | `WorkFindsItsArtifact` |
| `WorkerProofs` | `WorkerTypeCorrect` | `TypeOK` |
| | `IndicesStayFresh` | `IndicesAreFresh` |
| | `ScansFindTheFirst` | `ScanIsCorrect` |
| | `ReadersFindWholeFiles` | `ReaderFindsWholeFiles` |
| | `StopsLeaveFew` | `StopLeavesFew` |
| `MetricsProofs` | `MetricsTypeCorrect` | `TypeOK` |
| | `MergingAddsUp` | `HistogramsAddUp` |
| | `ChartsTellTheTotals` | `ChartsMatchTotals` |
| | `FrozenStaysComplete` | `FrozenIsComplete` |
| | `NoOperationForgotten` | `OperationsConserved` |
| `PhaseConfigProofs` | `ConfigTypeCorrect` | `TypeOK` |
| | `DisabledListStaysWellFormed` | `DisabledListWellFormed` |
| | `RunsFollowThePlan` | `RunFollowsActivePlan` |
| | `SavedConfigReturns` | `SyncedConfigSurvivesRestart` |

*Orchestrator.* None of the properties is inductive by itself. `TypeInv` adds to the types that a call past its
critical section has a run, and a goroutine at work a step of its plan. `RunInv` adds to `OneRunAtATime` that a
`Start` that has not reached `go o.run` belongs to the active run, which has no goroutine yet; it is what keeps a
second goroutine away. On it rest `RecordingInv` (a `Begin` still to come finds its run active), `MembersInv` (the
participants of the active run are those it was started with), `OutcomeInv` (what the deferred function has
decided still fits the state when `finish` writes it) and the spans (an open one is the last and that of the
phase shown). The refinement then needs one case for each action: `StartLocked`, `StopLocked`, `RemovedFailsRun`
and `finish` map to the steps of `RunLifecycle`, everything else to a stutter.

*Sessions.* Registry, selection and map of connections change in separate steps; each invariant says where a
handler or the prune loop must be for two of them to disagree. A client is served twice only if two handlers both
hold the current connection (`ServedIsCurrent`); a selected client without a connection has a handler before
`Publish` or a loss that is about to be reported (`LossIsReported`); an entry without a connection has a handler
that is about to publish one (`EntryIsPublished`).

*Send queue.* What was written, is in the writer's hand and is queued form one stream. `StreamsOrdered` says it
is ordered for each sender, and what a sender is about to put in comes after all of its messages (`AllPast`);
dropping takes an element out, and keeps the order. For the latest message, `LastInv` says that the queue ends
with it as long as it is queued, that nothing queued was dropped, and that a latest message that was dropped has
a sender that is about to replace it.

*Agent.* A context that is live belongs to the loop of the latest session or to `runCancel`. For the order of
commands, what has left the queue comes before what is in it or on its way (`QueueInOrder`), and what the loop of
the session is about to begin with comes after everything begun (`CommandsInOrder`). A stop remembers what was
under way when it was read: that comes before all that is received after it (`StopsAreBefore`), and in the first
session it is cancelled by the stop or by the loop that takes it (`StopInOrder`).

*WaitIdle.* A participant counts as a newcomer of a command if it was not idle when the command was sent and nothing
it was asked before may still make it say so (`Unanswered`). From then on, and through stops, broken sessions and old
loops, everything it is asked is this command or a stop, and wherever an "idle" of it is found (with its loop, with
the old one, on either connection, in the registry), it has finished this command (`OnlyThisCommand`). Each step of a
client keeps that for itself (`ClientStepKeeps`) and for the others (`OthersStay`); sending the next command begins it
anew (`NextNewcomerInv`).

*UIPush.* One goroutine at most flushes, and the flag is up while it does (`Alone`); it begins a push when the
pause has gone by since the latest one (`Waited`).

*SoftwareTree.* `Shape` is a property of the list of steps, proved of `Steps(plan)` for every plan: the background
removal is the last step, and each use follows the preparation, or another use, of the same artifact. With
`Ordered`, what is left to the goroutine keeps its shape and no background removal of the run goes on before its
end. `Leftovers` says under which prefixes a tree may be left after the last step; `Available`, where in its
copies the goroutine is and so under which prefixes the artifact is whole.

*Worker.* `WorkerInv` is the types with four parts. `LedgerInv`: what is listed has an index below the next one.
`LanesOK`: a lane is where its phase can be, with a file where it needs one. `FreshInv` is `IndicesAreFresh` with
what keeps it: the file that a lane holds has an index below the next one, so that the index handed out is nobody's.
`WholeInv`: in a run with a create phase, the files listed for reading are whole, and a file that is being made is
on disk what its lane has written so far; its last conjunct is what `Add` and `AddBW` rely on. `SweptInv`, for stops,
stands alone: what is on disk since the stop was made by different lanes, none of which is where it may make
another, as the context is cancelled.

*Metrics.* The model's sums are the folds of the community modules. What a sum does when an element comes, goes or
changes, when its domain is split, and when it is moved to another domain (`SumTakes`, `SumChanges`, `SumSplits`,
`SumMoves`) is proved from the definition of the fold. The inductive invariant `Types` is `TypeOK` with what the
arithmetic needs: histograms have the bins of their scale and add up (`GoodLatencies`), seconds that clients send
are positive, and the loop holds no sample when it waits. Relative to it, the charts are inductive once it is known
what each helper does to a sum: a credit adds its increment once for each second of the window (`WindowTells`), a
flush moves buckets to points (`FlushTells`), filling in adds nothing (`EnsureTells`), and trimming moves points to
what was trimmed (`TrimTells`). Conservation has one case for each place an operation can leave.

*PhaseConfig.* All its lists come from one loop, `Collect`. What it collects from a list with one more element and
from two lists put together (`CollectAppend`, `CollectConcat`) is proved from the fold, and gives that normalizing is
idempotent (`NormTwice`). The invariant `ConfigInv` is the types, `WellFormed(cfg)`, and the property about the file,
which a start that could not load it leaves to the next save.
The hard step is the refused click: it is refused only if the list it builds is the whole plan
(`RefusedBuildsWholePlan`), and then the stored list, all but one group of the plan, becomes the beginning of the
plan; what is cut off are at most three phases from its end, which toggle alone (`OverwrittenTells`). A run and its
plan are compared phase by phase (`PhaseOn`): a well-formed list enables the software phases together, so that
`run()` may ask for one of them only.

Induction is done without the library's theorems on it, which take an operator: a set of naturals, or of sequences,
that holds the first and with each element the next holds all of them (`Induct`, `SeqInduct`), as a least
counterexample would have a predecessor (`LeastOf`).

Model-checked only: liveness (`ImplementsFairLifecycle` beyond its safety part, `AbandonedEntriesGo`, `QueuesEmpty`,
`OldLoopsEnd`, `FinalDeleteGetsEverything`, `WaitEnds`, `EveryChangeIsShown`), as fairness and ENABLED are out of the
prover's reach; and the violations.

## 5. What is left out

- Percentages, elapsed times, rates and the file count of a run; pacing, buffers, offsets and `O_DIRECT` of
  workers.
- Downloads, archives and git themselves: an artifact is absent, partial or whole, and getting it succeeds,
  fails or is cancelled.
- The fields of the configuration that select no phase; the choice of a prefix, which is a hash of the host name;
  the metrics interval and pings, but for the connection they break.
- Sums and failures of latency histograms, which take the same path as totals; the second table of edges, as the
  histograms of one kind have the same table everywhere.
- In `Worker`, an operation of an old session's loop that is still under way when the first command of the next
  session begins (a reconnection takes two seconds at least, a write to a slow file system may take longer):
  `Begin` waits until all lanes are off. Within a session that is the order of `commandLoop`; between sessions it is
  an assumption. `Agent` has the overlap of the loops, without the files.
- In `WaitIdle`, a broadcast of the configuration between a registration and its welcome, a second broken session
  before the loop and the handler of the first one are done, and messages dropped by a full send queue.
- The web UI's JavaScript, flags, start-up.
- The composition of everything. `Orchestrator` sees clients as a registry; `Agent` sees the controller as
  commands and stops; `SoftwareTree` and `WaitIdle` have both sides, of one concern each. A stop from the button
  to the directory is `Orchestrator` (who is told), `SendQueue` (the message arrives), `Agent` (the work is
  cancelled) and `Worker` (what is left on disk), each with the assumptions of its neighbours stated in its
  header.

## 6. What could come next

1. An abstract specification of the participants' membership, implemented by `ClientSessions` and used by
   `Orchestrator` in place of `Register` and `Unregister`.
2. A composition of `Orchestrator`, `SendQueue` and `Agent` for one client and one stop.
3. The abstract life of a client's queue (a channel that loses its oldest), implemented by `SendQueue` and used in
   that composition.
