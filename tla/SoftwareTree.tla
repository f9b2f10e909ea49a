---------------------------- MODULE SoftwareTree ----------------------------
(***************************************************************************)
(* The directory <prefix>/<test>/software that the controller and the      *)
(* clients share: the controller unpacks a package into it, or copies a    *)
(* git bundle or an archive there, commands the clients to use it, and     *)
(* removes it: between the software and the other phases, and in the       *)
(* background after the last of them.  A client that is told to stop       *)
(* removes it too.  The next run may begin in the meantime.                *)
(*                                                                         *)
(* Abstractions.  All runs have the same test name and prefixes.  A wait   *)
(* for the clients may be over at any time (module WaitIdle says when); so *)
(* may the use of an artifact.  Removing a directory is one step.  A stop  *)
(* and the loss of a participant are one action, which cancels the run and *)
(* tells the clients.  Timed phases are left out: they come after all      *)
(* steps, and do not touch the directory; so are runs with timed phases    *)
(* only.                                                                   *)
(***************************************************************************)
EXTENDS Naturals, Sequences

CONSTANTS
    Clients,
    Prefixes,
    PrefixOf,   \* SelectPrefix: the prefix of each client
    \* Bound.
    MaxRuns

ASSUME SoftwareTreeAssumption ==
    /\ MaxRuns \in Nat \ {0}
    /\ PrefixOf \in [Clients -> Prefixes]

Artifacts == {"package", "bundle", "archive"}
Runs == 1..MaxRuns

\* A step prepares an artifact, or commands the clients to use it, or removes
\* the directory before the run goes on or in the background.
StepKinds == {"prepare", "use", "remove", "removeAsync"}
Do(kind, a) == <<[kind |-> kind, of |-> a]>>
If(condition, s) == IF condition THEN s ELSE << >>

\* Mutants: the removal before the git and untar phases does not hold up the
\* run; the tree of a run with software phases only is forgotten.
Steps_NeverWaits(plan) ==
    If("package" \in plan,
       Do("prepare", "package") \o Do("use", "package") \o Do("use", "package")
       \o Do("removeAsync", "package"))
    \o If("bundle" \in plan, Do("prepare", "bundle") \o Do("use", "bundle"))
    \o If("archive" \in plan, Do("prepare", "archive") \o Do("use", "archive"))
    \o If({"bundle", "archive"} \cap plan # {}, Do("removeAsync", "archive"))

Steps_Forgets(plan) ==
    If("package" \in plan,
       Do("prepare", "package") \o Do("use", "package") \o Do("use", "package"))
    \o If("bundle" \in plan, Do("prepare", "bundle") \o Do("use", "bundle"))
    \o If("archive" \in plan, Do("prepare", "archive") \o Do("use", "archive"))
    \o If({"bundle", "archive"} \cap plan # {}, Do("removeAsync", "archive"))

Steps(plan) ==
    LET reused == {"bundle", "archive"} \cap plan # {}
    IN  If("package" \in plan,
           Do("prepare", "package") \o Do("use", "package") \o Do("use", "package")
           \o Do(IF reused THEN "remove" ELSE "removeAsync", "package"))
        \o If("bundle" \in plan, Do("prepare", "bundle") \o Do("use", "bundle"))
        \o If("archive" \in plan, Do("prepare", "archive") \o Do("use", "archive"))
        \o If(reused, Do("removeAsync", "archive"))

VARIABLES
    tree,       \* what is in the directory under each prefix
    run,        \* number of runs begun
    pc,         \* where the goroutine of the run is
    steps,      \* the steps that are left to it
    left,       \* the prefixes that are left to its step
    copying,    \* the prefix it is copying to (none or one)
    cancelled,  \* its context is cancelled
    removers,   \* the background removals of each run: the prefixes left
    queue,      \* messages to each client, and commands in its Agent.cmdCh
    job,        \* the command each client works on (none or one)
    main,       \* the main goroutine of each client, in and out of a stop
    \* Ghost.
    disturbed   \* something that is no part of this run has removed a tree

runner == <<run, pc, steps, left, copying, cancelled>>
client == <<queue, job, main>>
vars == <<tree, runner, removers, client, disturbed>>

Contents == {"none", "part", "whole"}
Steplists == Seq([kind : StepKinds, of : Artifacts])
\* A message is a command for a step of a run, counted from the end of the run,
\* or the stop of a run.
Messages == [run : Runs, step : Nat]
IsStop(m) == m.step = 0
Commands == {m \in Messages : ~IsStop(m)}

TypeOK ==
    /\ tree \in [Prefixes -> [Artifacts -> Contents]]
    /\ run \in 0..MaxRuns
    /\ pc \in {"off", "step", "fetch", "copy", "wait", "remove", "done", "failed"}
    /\ steps \in Steplists
    /\ left \in SUBSET Prefixes
    /\ copying \in SUBSET Prefixes
    /\ cancelled \in BOOLEAN
    /\ removers \in [Runs -> SUBSET Prefixes]
    /\ queue \in [Clients -> Seq(Messages)]
    /\ job \in [Clients -> SUBSET Commands]
    /\ main \in [Clients -> {"read", "cleanup"}]
    /\ disturbed \in BOOLEAN

Nothing == [a \in Artifacts |-> "none"]

Init ==
    /\ tree = [p \in Prefixes |-> Nothing]
    /\ run = 0
    /\ pc = "off"
    /\ steps = << >>
    /\ left = {}
    /\ copying = {}
    /\ cancelled = FALSE
    /\ removers = [r \in Runs |-> {}]
    /\ queue = [c \in Clients |-> << >>]
    /\ job = [c \in Clients |-> {}]
    /\ main = [c \in Clients |-> "read"]
    /\ disturbed = FALSE

-----------------------------------------------------------------------------
(***************************************************************************)
(* The goroutine of the run                                                *)
(***************************************************************************)
Over == pc \in {"off", "done", "failed"}
Current == Head(steps)
Advance == pc' = "step" /\ steps' = Tail(steps)
GiveUp == pc' = "failed" /\ UNCHANGED steps
Tell(m) == queue' = [c \in Clients |-> Append(queue[c], m)]

Start(plan) ==
    /\ Over
    /\ run < MaxRuns
    /\ run' = run + 1
    /\ pc' = "step"
    /\ steps' = Steps(plan)
    /\ left' = {}
    /\ copying' = {}
    /\ cancelled' = FALSE
    /\ disturbed' = FALSE
    /\ UNCHANGED <<tree, removers, client>>

\* Stop, or OnClientRemoved.
Stop ==
    /\ ~Over
    /\ ~cancelled
    /\ cancelled' = TRUE
    /\ Tell([run |-> run, step |-> 0])
    /\ UNCHANGED <<tree, run, pc, steps, left, copying, removers, job, main, disturbed>>

\* runControllerUnpack, runControllerGitBundle, runControllerUntarArchive.  The
\* artifact is fetched once; a cancelled context makes that fail.
BeginPrepare ==
    /\ pc = "step"
    /\ steps # << >>
    /\ Current.kind = "prepare"
    /\ pc' = "fetch"
    /\ UNCHANGED <<tree, run, steps, left, copying, cancelled, removers, client, disturbed>>

Fetch ==
    /\ pc = "fetch"
    /\ \/ ~cancelled /\ pc' = "copy" /\ left' = Prefixes /\ UNCHANGED steps
       \/ GiveUp /\ UNCHANGED left
    /\ UNCHANGED <<tree, run, copying, cancelled, removers, client, disturbed>>

\* The directory is made, for a package anew, and the copy begun.  The copies
\* of a bundle and of an archive do not look at the context.
BeginCopy(p) ==
    /\ pc = "copy"
    /\ copying = {}
    /\ p \in left
    /\ left' = left \ {p}
    /\ copying' = {p}
    /\ LET a == Current.of
           rest == IF a = "package" THEN Nothing ELSE tree[p]
       IN  tree' = [tree EXCEPT ![p] = [rest EXCEPT ![a] = "part"]]
    /\ UNCHANGED <<run, pc, steps, cancelled, removers, client, disturbed>>

\* Of a package, what is extracted after a removal comes to be there.
EndCopy(p) ==
    /\ pc = "copy"
    /\ copying = {p}
    /\ copying' = {}
    /\ LET a == Current.of
       IN  \/ /\ tree[p][a] = "part"
              /\ a = "package" => ~cancelled
              /\ tree' = [tree EXCEPT ![p][a] = "whole"]
              /\ UNCHANGED <<pc, steps>>
           \/ /\ tree[p][a] = "none"
              /\ a = "package" => ~cancelled
              /\ tree' = [tree EXCEPT ![p][a] = IF a = "package" THEN "part" ELSE "none"]
              /\ UNCHANGED <<pc, steps>>
           \/ GiveUp /\ UNCHANGED tree
    /\ UNCHANGED <<run, left, cancelled, removers, client, disturbed>>

Prepared ==
    /\ pc = "copy"
    /\ copying = {}
    /\ left = {}
    /\ Advance
    /\ UNCHANGED <<tree, run, left, copying, cancelled, removers, client, disturbed>>

\* runSoftwarePhase.  The context is looked at in the wait only.
SendCommand ==
    /\ pc = "step"
    /\ steps # << >>
    /\ Current.kind = "use"
    /\ Tell([run |-> run, step |-> Len(steps)])
    /\ pc' = "wait"
    /\ UNCHANGED <<tree, run, steps, left, copying, cancelled, removers, job, main, disturbed>>

WaitOver ==
    /\ pc = "wait"
    /\ \/ Advance
       \/ cancelled /\ GiveUp
    /\ UNCHANGED <<tree, run, left, copying, cancelled, removers, client, disturbed>>

\* cleanupSoftware
BeginRemove ==
    /\ pc = "step"
    /\ steps # << >>
    /\ Current.kind = "remove"
    /\ pc' = "remove"
    /\ left' = Prefixes
    /\ UNCHANGED <<tree, run, steps, copying, cancelled, removers, client, disturbed>>

Remove(p) ==
    /\ pc = "remove"
    /\ p \in left
    /\ left' = left \ {p}
    /\ tree' = [tree EXCEPT ![p] = Nothing]
    /\ IF left = {p} THEN Advance ELSE UNCHANGED <<pc, steps>>
    /\ UNCHANGED <<run, copying, cancelled, removers, client, disturbed>>

\* cleanupSoftwareAsync
StartRemover ==
    /\ pc = "step"
    /\ steps # << >>
    /\ Current.kind = "removeAsync"
    /\ removers' = [removers EXCEPT ![run] = Prefixes]
    /\ Advance
    /\ UNCHANGED <<tree, run, left, copying, cancelled, client, disturbed>>

\* The timed phases, if any, and the end.
Finish ==
    /\ pc = "step"
    /\ steps = << >>
    /\ pc' = IF cancelled THEN "failed" ELSE "done"
    /\ UNCHANGED <<tree, run, steps, left, copying, cancelled, removers, client, disturbed>>

\* The goroutine of cleanupSoftwareAsync of run r.
RemoverStep(r, p) ==
    /\ p \in removers[r]
    /\ removers' = [removers EXCEPT ![r] = @ \ {p}]
    /\ tree' = [tree EXCEPT ![p] = Nothing]
    /\ disturbed' = (disturbed \/ r # run)
    /\ UNCHANGED <<runner, client>>

-----------------------------------------------------------------------------
(***************************************************************************)
(* Client c                                                                *)
(***************************************************************************)
\* The main goroutine passes the commands on, and comes to the first stop.  The
\* work under way is cancelled, which kills the shell command; the commands
\* before the stop stay queued.
ReadStop(c) ==
    /\ main[c] = "read"
    /\ \E i \in DOMAIN queue[c] :
           /\ IsStop(queue[c][i])
           /\ \A j \in 1..(i - 1) : ~IsStop(queue[c][j])
           /\ queue' = [queue EXCEPT ![c] = SubSeq(@, 1, i - 1) \o SubSeq(@, i + 1, Len(@))]
    /\ job' = [job EXCEPT ![c] = {}]
    /\ main' = [main EXCEPT ![c] = "cleanup"]
    /\ UNCHANGED <<tree, runner, removers, disturbed>>

\* Worker.Cleanup
Cleanup(c) ==
    /\ main[c] = "cleanup"
    /\ main' = [main EXCEPT ![c] = "read"]
    /\ tree' = [tree EXCEPT ![PrefixOf[c]] = Nothing]
    /\ disturbed' = TRUE
    /\ UNCHANGED <<runner, removers, queue, job>>

\* runSoftwareStartup, runGitClone, runUntar: the artifact is looked for, and
\* used if it is there.
BeginWork(c) ==
    /\ job[c] = {}
    /\ queue[c] # << >>
    /\ ~IsStop(Head(queue[c]))
    /\ job' = [job EXCEPT ![c] = {Head(queue[c])}]
    /\ queue' = [queue EXCEPT ![c] = Tail(@)]
    /\ UNCHANGED <<tree, runner, removers, main, disturbed>>

EndWork(c) ==
    /\ job[c] # {}
    /\ job' = [job EXCEPT ![c] = {}]
    /\ UNCHANGED <<tree, runner, removers, queue, main, disturbed>>

-----------------------------------------------------------------------------
RunNext ==
    \/ BeginPrepare
    \/ Fetch
    \/ \E p \in Prefixes : BeginCopy(p) \/ EndCopy(p) \/ Remove(p)
    \/ Prepared
    \/ SendCommand
    \/ WaitOver
    \/ BeginRemove
    \/ StartRemover
    \/ Finish

RemoverNext(r) == \E p \in Prefixes : RemoverStep(r, p)

ClientNext(c) ==
    \/ ReadStop(c)
    \/ Cleanup(c)
    \/ BeginWork(c)
    \/ EndWork(c)

Next ==
    \/ \E plan \in (SUBSET Artifacts) \ {{}} : Start(plan)
    \/ Stop
    \/ RunNext
    \/ \E r \in Runs : RemoverNext(r)
    \/ \E c \in Clients : ClientNext(c)

Spec == Init /\ [][Next]_vars

-----------------------------------------------------------------------------
(***************************************************************************)
(* Properties                                                              *)
(***************************************************************************)

\* The client works on a command of this run that the run still waits for.
InTime(c) ==
    /\ pc = "wait"
    /\ job[c] = {[run |-> run, step |-> Len(steps)]}

\* While a client works on a command, what the command is about is there and
\* whole, whichever software phases the run has: as long as the run waits, and
\* nobody but this run has removed a tree since it began.
WorkFindsItsArtifact ==
    \A c \in Clients :
        InTime(c) /\ ~disturbed => tree[PrefixOf[c]][Current.of] = "whole"

\* Whichever software phases a run has, when it has gone through all of them and
\* its own background removal is over, no tree is left.
TreesGo ==
    pc = "done" /\ removers[run] = {} => \A p \in Prefixes : tree[p] = Nothing

-----------------------------------------------------------------------------
(***************************************************************************)
(* Claims the code does not keep                                           *)
(***************************************************************************)

\* "Shared software tree is removed by the controller after warm completes": a
\* client that works on a command has its tree, in a run that is not disturbed.
TreeOutlivesWork ==
    \A c \in Clients : \A cmd \in job[c] :
        cmd.run = run /\ pc \in {"step", "wait"} /\ ~disturbed =>
            tree[PrefixOf[c]] # Nothing

\* The tree of a run is removed by nobody else.
RunsKeepTheirTree ==
    \A c \in Clients : InTime(c) /\ ~cancelled =>
        tree[PrefixOf[c]][Current.of] = "whole"

\* "Cleanup removes test host files and any software tree under the test name":
\* when all clients have cleaned up after a stop, no tree is left.
StopLeavesNoTree ==
    /\ cancelled
    /\ Over
    /\ \A c \in Clients : queue[c] = << >> /\ main[c] = "read"
    => \A c \in Clients : tree[PrefixOf[c]] = Nothing
=============================================================================
