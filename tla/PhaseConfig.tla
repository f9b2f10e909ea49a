---------------------------- MODULE PhaseConfig ----------------------------
(***************************************************************************)
(* The configuration of the controller: the copy the orchestrator holds,   *)
(* the file it is saved to, the two calls that change it (SetConfig and    *)
(* SetPhaseEnabled), and restarts.                                         *)
(*                                                                         *)
(* Both calls hold the orchestrator's mutex from their first look at the   *)
(* state to the end of the save, so each is one action.  A save may fail,  *)
(* and so may the load at the start, because the file cannot be read or    *)
(* because it cannot be parsed; the program logs that and goes on.         *)
(***************************************************************************)
EXTENDS PhasePlan

CONSTANTS
    Default,   \* the configuration of DefaultConfig
    Inputs,    \* configurations a user submits; not normalized
    Toggles,   \* phases whose button a user clicks
    Ramp,      \* number of intensity steps of a ramp
    NoFile,    \* there is no saved configuration
    Malformed  \* there is a file, edited by hand, that cannot be parsed

ASSUME ConfigAssumption ==
    /\ Default \in Config
    /\ Inputs \subseteq Config
    /\ Toggles \subseteq Phase
    /\ Ramp \in Nat \ {0}
    /\ NoFile \notin Config
    /\ Malformed \notin Config \cup {NoFile}

VARIABLES
    up,       \* the controller process is running
    cfg,      \* Orchestrator.cfg
    running,  \* Orchestrator.running: the configuration is locked
    disk,     \* the saved configuration, Malformed or NoFile
    reply,    \* the answer to the last call
    synced    \* ghost: the file was loaded at the last boot, or written
              \* since; and no later save failed, no later click was refused

vars == <<up, cfg, running, disk, reply, synced>>

Reply == {"none", "ok", "error"}

TypeOK ==
    /\ up \in BOOLEAN
    /\ cfg \in Config
    /\ running \in BOOLEAN
    /\ disk \in Config \cup {NoFile, Malformed}
    /\ reply \in Reply
    /\ synced \in BOOLEAN

Init ==
    /\ up = FALSE
    /\ cfg = Default
    /\ running = FALSE
    /\ disk \in Inputs \cup {NoFile, Malformed}
    /\ reply = "none"
    /\ synced = FALSE

-----------------------------------------------------------------------------
\* SaveConfigFile writes a temporary file and renames it over the old one, so
\* the file holds either the old or the new configuration.
Save(new) ==
    \/ /\ disk' = new
       /\ synced' = TRUE
    \/ /\ UNCHANGED disk
       /\ synced' = FALSE

\* NewOrchestrator: the saved configuration; or, without a file, the default
\* one, which is then written; or, when LoadConfigFile fails on the file there
\* is, the default one, and the file is left alone.  Any file may fail to be
\* read.  What is loaded is normalized in memory only.
NewOrchestrator ==
    /\ ~up
    /\ up' = TRUE
    /\ running' = FALSE
    /\ reply' = "none"
    /\ \/ /\ disk \in Config
          /\ cfg' = Normalized(disk)
          /\ synced' = TRUE
          /\ UNCHANGED disk
       \/ /\ disk = NoFile
          /\ cfg' = Normalized(Default)
          /\ Save(Default)
       \/ /\ disk # NoFile
          /\ cfg' = Normalized(Default)
          /\ synced' = FALSE
          /\ UNCHANGED disk

\* The process ends, at any point between two calls.
Crash ==
    /\ up
    /\ up' = FALSE
    /\ UNCHANGED <<cfg, running, disk, reply, synced>>

\* The call is answered with an error.
Refuse ==
    /\ reply' = "error"
    /\ UNCHANGED <<up, running, disk>>

\* Mutant: the file gets the configuration that is being replaced.
Accept_SavesOld(new) ==
    /\ reply' = "ok"
    /\ cfg' = new
    /\ Save(cfg)
    /\ UNCHANGED <<up, running>>

\* The new configuration is put in place, broadcast and saved.
Accept(new) ==
    /\ reply' = "ok"
    /\ cfg' = new
    /\ Save(new)
    /\ UNCHANGED <<up, running>>

SetConfig(new) ==
    /\ up
    /\ \/ /\ running
          /\ Refuse
          /\ UNCHANGED <<cfg, synced>>
       \/ /\ ~running
          /\ Accept(Normalized(new))

\* The disabled list SetPhaseEnabled builds, in plan order, before it is
\* normalized.
Toggled(p, enabled) ==
    LET group == ToSet(PhaseToggleGroup(p))
        disabled == IF enabled THEN ToSet(cfg.disabled) \ group
                               ELSE ToSet(cfg.disabled) \cup group
    IN  Collect(EffectivePhaseOrder(cfg), disabled)

\* The list is built in place: `cfg.DisabledPhases[:0]' and the appends that
\* follow write to the array the orchestrator's own list lives in, so that
\* the old list, when it stays in use, shows the first entries of the new.
Overwritten(old, new) ==
    [i \in DOMAIN old |-> IF i \in DOMAIN new THEN new[i] ELSE old[i]]

InPlan(p) == \E g \in ToSet(PhaseToggleGroup(p)) :
                 Contains(EffectivePhaseOrder(cfg), g)

SetPhaseEnabled(p, enabled) ==
    /\ up
    /\ \/ /\ running \/ ~InPlan(p)
          /\ Refuse
          /\ UNCHANGED <<cfg, synced>>
       \/ /\ ~running
          /\ InPlan(p)
          /\ LET list == Toggled(p, enabled)
                 new  == Normalized([cfg EXCEPT !.disabled = list])
             IN  IF ActivePhaseOrder(new) = << >>
                 THEN /\ Refuse
                      /\ cfg' = [cfg EXCEPT
                                    !.disabled = Overwritten(@, list)]
                      /\ synced' = FALSE
                 ELSE Accept(new)

\* The orchestrator starts and ends runs: while one is active the
\* configuration is locked.
Start ==
    /\ up
    /\ ~running
    /\ ActivePhaseOrder(cfg) # << >>
    /\ running' = TRUE
    /\ UNCHANGED <<up, cfg, disk, reply, synced>>

finish ==
    /\ up
    /\ running
    /\ running' = FALSE
    /\ UNCHANGED <<up, cfg, disk, reply, synced>>

Next ==
    \/ NewOrchestrator
    \/ Crash
    \/ \E new \in Inputs : SetConfig(new)
    \/ \E p \in Toggles, enabled \in BOOLEAN : SetPhaseEnabled(p, enabled)
    \/ Start
    \/ finish

Spec == Init /\ [][Next]_vars

-----------------------------------------------------------------------------
(***************************************************************************)
(* Properties                                                              *)
(***************************************************************************)

\* The stored list names no phase twice and none the plan does not have, and
\* the phases that toggle together are disabled together.  ("Software
\* unpack/cold/warm and create/delete are always stored as groups.")  It has
\* to survive clicks, submitted and hand-written configurations, restarts,
\* and the list a refused click leaves behind.
DisabledListWellFormed ==
    up => /\ \A i, j \in DOMAIN cfg.disabled :
                 cfg.disabled[i] = cfg.disabled[j] => i = j
          /\ ToSet(cfg.disabled) \subseteq ToSet(EffectivePhaseOrder(cfg))
          /\ \A p \in ToSet(cfg.disabled) :
                 ToSet(PhaseToggleGroup(p)) \cap ToSet(EffectivePhaseOrder(cfg))
                    \subseteq ToSet(cfg.disabled)

\* The phases a run goes through, as run() decides them phase by phase, are
\* exactly the phases ActivePhaseOrder shows as enabled, in that order: the
\* decisions are taken in two places, from different operators.
RunFollowsActivePlan ==
    up => PhasesOfSteps(RunSteps(cfg, Ramp)) = ActivePhaseOrder(cfg)

\* Once the file was loaded at the start, or written by a call since, it holds
\* a configuration that a restart turns into the one in use, until a save
\* fails or a click is refused.  A start that could not load the file is not
\* covered: it runs with the defaults, and the next start may load the file.
SyncedConfigSurvivesRestart ==
    up /\ synced => disk \in Config /\ cfg = Normalized(disk)

\* A call that is answered with an error ("at least one phase must remain
\* enabled") has no effect on the configuration.  The code violates it: see
\* Overwritten.
RefusedCallChangesNothing ==
    [][up /\ reply # "error" /\ reply' = "error" => cfg' = cfg]_vars
=============================================================================
