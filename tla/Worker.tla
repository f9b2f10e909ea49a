------------------------------- MODULE Worker -------------------------------
(***************************************************************************)
(* The worker of a client and the files under its host's directory.  A     *)
(* command is one phase (or one step of its ramp); the worker goes round   *)
(* its loop until the time of the command is over or its context is        *)
(* cancelled.  The read-write phase has two goroutines that share the      *)
(* ledger.  The main goroutine of the agent cleans up after a stop, while  *)
(* the cancelled command may still be in the middle of an operation.       *)
(*                                                                         *)
(* Abstractions.  A file is its index, and the sparse file of the random   *)
(* I/O phase comes after all of them, as its path does.  The pace of a     *)
(* command and the time it has are left open: at any turn of its loop it   *)
(* may be over.  Buffers and offsets are left out; a bandwidth file takes  *)
(* any number of chunks.  A command begins when the one before it has left *)
(* the worker.  Within a session that is the code's order; the loop of an  *)
(* old session, cancelled, may still be inside an operation when the first *)
(* command of the next session begins (the module Agent has that overlap), *)
(* and here that operation is taken to be over.                            *)
(***************************************************************************)
EXTENDS FileLedger, FiniteSets

CONSTANTS
    \* Bounds.
    MaxIndex,   \* on the number of indices handed out
    MaxRuns,    \* on the number of runs
    MaxStops    \* on the number of stops

ASSUME WorkerAssumption ==
    /\ MaxIndex \in Nat \ {0}
    /\ MaxRuns \in Nat \ {0}
    /\ MaxStops \in Nat

Indices == 0..(MaxIndex - 1)
Sparse == MaxIndex
Files == Indices \cup {Sparse}

\* The phases in the order of a run; "wipe" is the forced end of "final".
Order == <<"create", "delete", "write", "read", "rw", "riops", "final", "wipe">>
Phases == {Order[i] : i \in DOMAIN Order}
Before(p, q) == \E i, j \in DOMAIN Order : i <= j /\ Order[i] = p /\ Order[j] = q

\* The goroutine that reads files, and the one that does everything else.
Lanes == {"writer", "reader"}

VARIABLES
    ledger,     \* Worker.Ledger
    disk,       \* what is under the path of each file
    phase,      \* phase of the latest command
    job,        \* the goroutines of the worker: where each is, the file it is
                \* about, the reader's list of files
    cancelled,  \* the context of the latest command is cancelled
    main,       \* the main goroutine, in and out of a stop
    run,        \* number of runs begun
    stops,      \* number of stops read
    \* Ghosts.
    created,    \* this run began with a create phase, and no stop has come
    hit,        \* the ledger was cleared in the middle of the latest command
    swept       \* a stop has removed all files after it cancelled the command

counters == <<run, stops>>
ghosts == <<created, hit, swept>>
vars == <<ledger, disk, phase, job, cancelled, main, counters, ghosts>>

\* A file may be whole, given up in the middle, or open for writing by a lane.
Contents == {"none", "whole", "broken"} \cup Lanes
JobPCs == {"off", "check", "take", "create", "add", "open", "chunk", "next", "reread",
           "openRead", "read", "look", "walk", "remove", "prep", "wipe", "wiped"}
OneFile == {{}} \cup {{f} : f \in Files}

TypeOK ==
    /\ ledger \in Ledgers
    /\ disk \in [Files -> Contents]
    /\ phase \in Phases \cup {"none"}
    /\ job \in [Lanes -> [pc : JobPCs, file : OneFile, files : SUBSET Files]]
    /\ cancelled \in BOOLEAN
    /\ main \in {"read", "removeAll", "clear"}
    /\ run \in 0..MaxRuns
    /\ stops \in 0..MaxStops
    /\ created \in BOOLEAN
    /\ hit \in BOOLEAN
    /\ swept \in BOOLEAN

NothingOnDisk == [f \in Files |-> "none"]
Off == [pc |-> "off", file |-> {}, files |-> {}]

Init ==
    /\ ledger = NewFileLedger
    /\ disk = NothingOnDisk
    /\ phase = "none"
    /\ job = [l \in Lanes |-> Off]
    /\ cancelled = FALSE
    /\ main = "read"
    /\ run = 0
    /\ stops = 0
    /\ created = FALSE
    /\ hit = FALSE
    /\ swept = FALSE

-----------------------------------------------------------------------------
At(l, pc) == job[l].pc = pc
Goto(l, pc) == job' = [job EXCEPT ![l].pc = pc]
GotoWith(l, pc, file) == job' = [job EXCEPT ![l].pc = pc, ![l].file = file]
Idle == \A l \in Lanes : At(l, "off")
OnDisk == {f \in Files : disk[f] # "none"}
Put(file, what) == disk' = [f \in Files |-> IF f \in file THEN what ELSE disk[f]]

\* closeFile: what a lane has open for writing stays as it is.
Close(l) == disk' = [f \in Files |-> IF disk[f] = l THEN "broken" ELSE disk[f]]

-----------------------------------------------------------------------------
(***************************************************************************)
(* Worker.Run                                                              *)
(***************************************************************************)

\* The goroutines of a phase, and where they begin.
FirstStep(p) ==
    CASE p = "wipe"  -> "wipe"
      [] p = "riops" -> "prep"
      [] OTHER       -> "check"
LanesOf(p) ==
    CASE p = "rw"   -> Lanes
      [] p = "read" -> {"reader"}
      [] OTHER      -> {"writer"}

\* Mutant: the bandwidth files of earlier runs stay listed.
Prepared_KeepsBW(p, l) == IF p = "create" THEN ResetDeleteCursor(l) ELSE l

\* What is done to the ledger before the loop of a phase.
Prepared(p, l) == IF p = "create" THEN ClearBW(ResetDeleteCursor(l)) ELSE l

Begin(p) ==
    /\ Idle
    /\ phase' = p
    /\ ledger' = Prepared(p, ledger)
    /\ job' = [l \in Lanes |-> IF l \in LanesOf(p) THEN [Off EXCEPT !.pc = FirstStep(p)]
                                                  ELSE Off]
    /\ cancelled' = FALSE
    /\ hit' = FALSE
    /\ swept' = FALSE

\* The next command of the run.  Queued commands come also while a stop is
\* handled, and after it.
BeginCommand(p) ==
    /\ phase # "none" /\ Before(phase, p)
    /\ p = "wipe" => phase = "final"
    /\ Begin(p)
    /\ UNCHANGED <<disk, main, counters, created>>

\* The first command of a run.  With another test name, or after another
\* prefix, nothing is where the ledger's files would be.
BeginRun(p) ==
    /\ main = "read"
    /\ run < MaxRuns
    /\ p # "wipe"
    /\ Begin(p)
    /\ disk' \in {disk, NothingOnDisk}
    /\ run' = run + 1
    /\ created' = (p = "create")
    /\ UNCHANGED <<main, stops>>

-----------------------------------------------------------------------------
(***************************************************************************)
(* The loop of lane l                                                      *)
(***************************************************************************)

\* The time is over, or the context is cancelled.
End(l) ==
    /\ At(l, "check")
    /\ job' = [job EXCEPT ![l] = Off]
    /\ Close(l)
    /\ UNCHANGED <<ledger, phase, cancelled, main, counters, ghosts>>

\* What a turn begins with.
Turn(l) ==
    CASE l = "reader" /\ job[l].file # {} -> "read"
      [] l = "reader" /\ job[l].file = {} -> "next"
      [] l = "writer" /\ job[l].file # {} -> "chunk"
      [] l = "writer" /\ job[l].file = {} /\ phase \in {"delete", "final"} -> "look"
      [] OTHER -> "take"

\* Mutant: the context is not looked at.
Go_Regardless(l) ==
    /\ At(l, "check")
    /\ phase # "riops"
    /\ Goto(l, Turn(l))
    /\ UNCHANGED <<ledger, disk, phase, cancelled, main, counters, ghosts>>

\* Random I/O to an open file changes nothing here.
Go(l) ==
    /\ At(l, "check")
    /\ ~cancelled
    /\ phase # "riops"
    /\ Goto(l, Turn(l))
    /\ UNCHANGED <<ledger, disk, phase, cancelled, main, counters, ghosts>>

TakeNextIndex(l) ==
    /\ At(l, "take")
    /\ ledger.next < MaxIndex
    /\ ledger' = TakeIndex(ledger)
    /\ GotoWith(l, IF phase = "create" THEN "create" ELSE "open", {ledger.next})
    /\ UNCHANGED <<disk, phase, cancelled, main, counters, ghosts>>

\* runCreate.  A failure may leave a part of the file.
CreateFile(l) ==
    /\ At(l, "create")
    /\ \/ Put(job[l].file, "whole") /\ Goto(l, "add")
       \/ /\ disk' = disk \/ Put(job[l].file, "broken")
          /\ GotoWith(l, "check", {})
    /\ UNCHANGED <<ledger, phase, cancelled, main, counters, ghosts>>

\* openNextWrite and writeFileDirect: a file that is in the way is removed.
OpenFile(l) ==
    /\ At(l, "open")
    /\ \/ Put(job[l].file, l) /\ Goto(l, "chunk")
       \/ /\ disk' = disk \/ Put(job[l].file, "none")
          /\ GotoWith(l, "check", {})
    /\ UNCHANGED <<ledger, phase, cancelled, main, counters, ghosts>>

\* A chunk is written: to a file that may have been removed or replaced since
\* it was opened.  The writer goes round its loop for each chunk; the reader
\* writes its seed in one go.
WriteChunk(l) ==
    /\ At(l, "chunk")
    /\ \/ l = "writer" /\ Goto(l, "check") /\ UNCHANGED disk
       \/ /\ disk' = [f \in Files |-> IF disk[f] = l THEN "whole" ELSE disk[f]]
          /\ Goto(l, "add")
       \/ Close(l) /\ GotoWith(l, "check", {})
    /\ UNCHANGED <<ledger, phase, cancelled, main, counters, ghosts>>

AddFile(l) ==
    /\ At(l, "add")
    /\ \E f \in job[l].file :
           ledger' = IF phase = "create" THEN Add(ledger, f) ELSE AddBW(ledger, f)
    /\ GotoWith(l, IF l = "reader" THEN "reread" ELSE "check", {})
    /\ UNCHANGED <<disk, phase, cancelled, main, counters, ghosts>>

\* openNextRead.  The list of files is refreshed now and then.
PickFrom(l, files) ==
    \E f \in files : job' = [job EXCEPT ![l].pc = "openRead", ![l].file = {f},
                                        ![l].files = files]

NextRead(l) ==
    /\ At(l, "next")
    /\ \/ PickFrom(l, job[l].files)
       \/ PickFrom(l, ToSet(ledger.bwIndices))
       \/ /\ ledger.bwIndices = << >>
          /\ job' = [job EXCEPT ![l].pc = "take", ![l].files = {}]
    /\ UNCHANGED <<ledger, disk, phase, cancelled, main, counters, ghosts>>

ReadSeed(l) ==
    /\ At(l, "reread")
    /\ \/ PickFrom(l, ToSet(ledger.bwIndices))
       \/ ledger.bwIndices = << >> /\ Goto(l, "check")
    /\ UNCHANGED <<ledger, disk, phase, cancelled, main, counters, ghosts>>

OpenRead(l) ==
    /\ At(l, "openRead")
    /\ IF job[l].file \subseteq OnDisk THEN Goto(l, "read")
                                       ELSE GotoWith(l, "check", {})
    /\ UNCHANGED <<ledger, disk, phase, cancelled, main, counters, ghosts>>

\* A chunk is read, or the last one, or none.
ReadChunk(l) ==
    /\ At(l, "read")
    /\ Goto(l, "check") \/ GotoWith(l, "check", {})
    /\ UNCHANGED <<ledger, disk, phase, cancelled, main, counters, ghosts>>

\* runDelete: the next file of the ledger, or else any under the directory.
LookInLedger(l) ==
    /\ At(l, "look")
    /\ LET next == NextExistingPath(ledger, OnDisk, phase = "final")
       IN  /\ ledger' = next.ledger
           /\ GotoWith(l, IF next.found = NoFile THEN "walk" ELSE "remove", next.found)
    /\ UNCHANGED <<disk, phase, cancelled, main, counters, ghosts>>

\* Mutant: only the ledger's files are deleted.
WalkDirectory_Skipped(l) ==
    /\ At(l, "walk")
    /\ Goto(l, "check")
    /\ UNCHANGED <<ledger, disk, phase, cancelled, main, counters, ghosts>>

\* nextOnDisk: the first file there.
WalkDirectory(l) ==
    /\ At(l, "walk")
    /\ \/ OnDisk = {} /\ Goto(l, "check")
       \/ \E f \in OnDisk : /\ \A g \in OnDisk : f <= g
                            /\ GotoWith(l, "remove", {f})
    /\ UNCHANGED <<ledger, disk, phase, cancelled, main, counters, ghosts>>

RemoveFile(l) ==
    /\ At(l, "remove")
    /\ Put(job[l].file, "none")
    /\ GotoWith(l, "check", {})
    /\ UNCHANGED <<ledger, phase, cancelled, main, counters, ghosts>>

\* The file cannot be removed, and the loop goes on.
RemoveFails(l) ==
    /\ At(l, "remove")
    /\ GotoWith(l, "check", {})
    /\ UNCHANGED <<ledger, disk, phase, cancelled, main, counters, ghosts>>

\* runRIOPS, the preparation.
PrepareSparse(l) ==
    /\ At(l, "prep")
    /\ \/ Put({Sparse}, "whole") /\ Goto(l, "check")
       \/ UNCHANGED disk /\ Goto(l, "off")
    /\ UNCHANGED <<ledger, phase, cancelled, main, counters, ghosts>>

\* wipeHostRoot
Wipe(l) ==
    /\ At(l, "wipe")
    /\ disk' = NothingOnDisk
    /\ Goto(l, "wiped")
    /\ UNCHANGED <<ledger, phase, cancelled, main, counters, ghosts>>

WipeClears(l) ==
    /\ At(l, "wiped")
    /\ ledger' = Clear(ledger)
    /\ Goto(l, "off")
    /\ UNCHANGED <<disk, phase, cancelled, main, counters, ghosts>>

-----------------------------------------------------------------------------
(***************************************************************************)
(* The main goroutine                                                      *)
(***************************************************************************)

\* The connection is lost: the work is cancelled, the files stay.
SessionEnds ==
    /\ main = "read"
    /\ ~cancelled
    /\ cancelled' = TRUE
    /\ UNCHANGED <<ledger, disk, phase, job, main, counters, ghosts>>

ReadStop ==
    /\ main = "read"
    /\ stops < MaxStops
    /\ stops' = stops + 1
    /\ cancelled' = TRUE
    /\ main' = "removeAll"
    /\ created' = FALSE
    /\ UNCHANGED <<ledger, disk, phase, job, run, hit, swept>>

\* Worker.Cleanup.  A queued command may have begun since the stop was read.
CleanupRemoves ==
    /\ main = "removeAll"
    /\ disk' = NothingOnDisk
    /\ main' = "clear"
    /\ swept' = (cancelled \/ Idle)
    /\ UNCHANGED <<ledger, phase, job, cancelled, counters, created, hit>>

CleanupClears ==
    /\ main = "clear"
    /\ ledger' = Clear(ledger)
    /\ main' = "read"
    /\ hit' = ~Idle
    /\ UNCHANGED <<disk, phase, job, cancelled, counters, created, swept>>

-----------------------------------------------------------------------------
\* A step that a lane takes of itself.
Step(l) ==
    \/ Go(l)
    \/ TakeNextIndex(l)
    \/ CreateFile(l)
    \/ OpenFile(l)
    \/ WriteChunk(l)
    \/ AddFile(l)
    \/ NextRead(l)
    \/ ReadSeed(l)
    \/ OpenRead(l)
    \/ ReadChunk(l)
    \/ LookInLedger(l)
    \/ WalkDirectory(l)
    \/ RemoveFile(l)
    \/ PrepareSparse(l)
    \/ Wipe(l)
    \/ WipeClears(l)

Next ==
    \/ \E p \in Phases : BeginCommand(p) \/ BeginRun(p)
    \/ \E l \in Lanes : Step(l) \/ RemoveFails(l) \/ End(l)
    \/ SessionEnds
    \/ ReadStop
    \/ CleanupRemoves
    \/ CleanupClears

Spec == Init /\ [][Next]_vars

\* Goroutines are scheduled, and a loop looks at its context at every turn.
\* That the time of a command is over is not counted on.  A removal that is
\* tried again and again succeeds at last: that is of the file system, not of
\* the code, and a file that can never be removed is not in the scope of what
\* FairSpec promises.
FairSpec ==
    /\ Spec
    /\ \A l \in Lanes : /\ WF_vars(Step(l))
                         /\ WF_vars(cancelled /\ End(l))
                         /\ SF_vars(RemoveFile(l))

-----------------------------------------------------------------------------
(***************************************************************************)
(* Properties                                                              *)
(***************************************************************************)

\* A file that is being written is not one the ledger lists, nor one that the
\* other goroutine writes: as long as the ledger is not cleared in the middle
\* of the command, and whatever was cleared in the middle of earlier ones.
Writing(l) == IF job[l].pc \in {"create", "add", "open", "chunk"} THEN job[l].file ELSE {}
IndicesAreFresh ==
    ~hit => /\ \A l \in Lanes : Writing(l) \cap ToSet(ledger.indices) = {}
            /\ Writing("writer") \cap Writing("reader") = {}

\* Whichever files have gone in the meantime, a delete phase that keeps the
\* entries of the ledger finds the first that is left, around the end of the
\* list, and loses no entry.
ScanIsCorrect ==
    \A there \in SUBSET Files :
        LET next == NextExistingPath(ledger, there, FALSE)
        IN  /\ next.found = FirstExisting(ledger, there)
            /\ next.ledger.indices = ledger.indices

\* In a run with a create phase the bandwidth phases read files that are there
\* and whole: neither those of earlier runs nor one that is being written.
ReaderFindsWholeFiles ==
    created /\ ~hit /\ main = "read" /\ At("reader", "openRead") =>
        \A f \in job["reader"].file : disk[f] = "whole"

\* A stop removes what a command has made, except for one operation of each of
\* its goroutines that was under way.
StopLeavesFew ==
    swept => Cardinality(OnDisk) <= Cardinality(LanesOf(phase))

\* Given the time, the final delete removes every file, listed or not, and
\* however often a removal has failed.
FinalDeleteGetsEverything ==
    phase = "final" /\ At("writer", "check") ~> OnDisk = {} \/ At("writer", "off")

-----------------------------------------------------------------------------
(***************************************************************************)
(* Claims the code does not keep                                           *)
(***************************************************************************)

\* "NextExistingPath finds the next ledger path that still exists": also in the
\* final delete.
FinalScanFinds ==
    At("writer", "look") /\ phase = "final" =>
        (NextExistingPath(ledger, OnDisk, TRUE).found = NoFile
            <=> ToSet(ledger.indices) \cap OnDisk = {})

\* "No bandwidth files yet - seed one": a reader that has the time reads, or
\* makes a file it can read, in a run without a create phase as well.
ReaderReads ==
    At("reader", "check") ~> job["reader"].pc \in {"read", "take", "off"}
=============================================================================
