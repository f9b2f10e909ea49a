----------------------------- MODULE PhasePlan -----------------------------
(***************************************************************************)
(* The phases of a benchmark run and the rules that select and order them. *)
(* Pure definitions, translated from internal/protocol/protocol.go and     *)
(* from the body of Orchestrator.run.                                      *)
(*                                                                         *)
(* A configuration keeps only what these rules look at: whether the        *)
(* optional software, git and untar phases are configured (their URL and   *)
(* command strings are non-blank), and the list of disabled phases, in its *)
(* stored order.                                                           *)
(***************************************************************************)
EXTENDS Naturals, Sequences, SequencesExt

Phase == {"idle", "software_unpack", "software_cold", "software_warm",
          "git_clone", "untar", "create", "delete", "write_bw", "read_bw",
          "read_write", "riops", "final_delete", "stopped"}

Config == [software : BOOLEAN, git : BOOLEAN, untar : BOOLEAN,
           disabled : Seq(Phase)]

SoftwareEnabled(cfg) == cfg.software
GitCloneEnabled(cfg) == cfg.git
UntarEnabled(cfg)    == cfg.untar

PhaseOrder == <<"create", "delete", "write_bw", "read_bw", "read_write",
                "riops", "final_delete">>

If(condition, s) == IF condition THEN s ELSE << >>

EffectivePhaseOrder(cfg) ==
    If(SoftwareEnabled(cfg),
       <<"software_unpack", "software_cold", "software_warm">>)
    \o If(GitCloneEnabled(cfg), <<"git_clone">>)
    \o If(UntarEnabled(cfg), <<"untar">>)
    \o PhaseOrder

-----------------------------------------------------------------------------
(***************************************************************************)
(* Disabling phases                                                        *)
(***************************************************************************)

\* A phase outside every group toggles alone.
PhaseToggleGroup(p) ==
    CASE p \in {"software_unpack", "software_cold", "software_warm"}
           -> <<"software_unpack", "software_cold", "software_warm">>
      [] p \in {"create", "delete"} -> <<"create", "delete">>
      [] OTHER -> <<p>>

PhaseDisabled(cfg, p) == Contains(cfg.disabled, p)

PhaseSelected(cfg, p) ==
    /\ Contains(EffectivePhaseOrder(cfg), p)
    /\ ~PhaseDisabled(cfg, p)

\* What a loop over a list collects: the elements that are in S, each once.
Collect(list, S) ==
    LET Add(out, p) == IF p \in S \ ToSet(out) THEN Append(out, p) ELSE out
    IN  FoldLeft(Add, << >>, list)

\* Mutant: the listed phase is stored without the rest of its group.
Normalized_WithoutGroups(cfg) ==
    Collect(cfg.disabled, ToSet(EffectivePhaseOrder(cfg)))

\* Each listed phase is replaced by its group; phases the plan does not have
\* are dropped, and the first occurrence of the others is kept.
NormalizeDisabledPhases(cfg) ==
    LET groups == [i \in DOMAIN cfg.disabled |-> PhaseToggleGroup(cfg.disabled[i])]
    IN  Collect(FlattenSeq(groups), ToSet(EffectivePhaseOrder(cfg)))

Normalized(cfg) == [cfg EXCEPT !.disabled = NormalizeDisabledPhases(cfg)]

\* No phase is twice in a plan.
ActivePhaseOrder(cfg) ==
    LET enabled == {p \in Phase : ~PhaseDisabled(Normalized(cfg), p)}
    IN  Collect(EffectivePhaseOrder(cfg), enabled)

-----------------------------------------------------------------------------
(***************************************************************************)
(* The steps of a run.  A step enters a phase and then, by kind,           *)
(*   "prep"   does work on the controller itself;                          *)
(*   "wait"   commands the participants and waits until they are idle;     *)
(*   "timed"  commands the participants and lets a fixed time pass.        *)
(* `ramp' is the number of intensity steps of a ramp (RampPercents has 10).*)
(***************************************************************************)
StepKind == {"prep", "wait", "timed"}

Step == [phase : Phase, kind : StepKind]

A(phase, kind) == <<[phase |-> phase, kind |-> kind]>>

runRamp(phase, ramp) == [i \in 1..ramp |-> [phase |-> phase, kind |-> "timed"]]

sendAndWait(phase) == A(phase, "timed")

runSoftwarePhase(phase) == A(phase, "wait")

softwareSteps(cfg) ==
    If(SoftwareEnabled(cfg) /\ PhaseSelected(cfg, "software_cold"),
       A("software_unpack", "prep")
       \o runSoftwarePhase("software_cold")
       \o runSoftwarePhase("software_warm"))

\* Mutant: the git phase cannot be switched off.
gitSteps_IgnoresToggle(cfg) ==
    If(GitCloneEnabled(cfg),
       A("git_clone", "prep") \o runSoftwarePhase("git_clone"))

gitSteps(cfg) ==
    If(GitCloneEnabled(cfg) /\ PhaseSelected(cfg, "git_clone"),
       A("git_clone", "prep") \o runSoftwarePhase("git_clone"))

untarSteps(cfg) ==
    If(UntarEnabled(cfg) /\ PhaseSelected(cfg, "untar"),
       A("untar", "prep") \o runSoftwarePhase("untar"))

\* run: what the run goroutine does, in order.  The removals of the shared
\* software tree between the phases change nothing that is modelled here.
RunSteps(cfg, ramp) ==
    LET When(p, steps) == If(PhaseSelected(cfg, p), steps)
    IN  softwareSteps(cfg) \o gitSteps(cfg) \o untarSteps(cfg)
        \o When("create", runRamp("create", ramp))
        \o When("delete", runRamp("delete", ramp) \o sendAndWait("delete"))
        \o When("write_bw", runRamp("write_bw", ramp))
        \o When("read_bw", runRamp("read_bw", ramp))
        \o When("read_write", runRamp("read_write", ramp))
        \o When("riops", sendAndWait("riops"))
        \o When("final_delete",
                runRamp("final_delete", ramp) \o A("final_delete", "wait"))

\* The phases the steps go through, each named once, in order.
PhasesOfSteps(steps) ==
    Collect([i \in DOMAIN steps |-> steps[i].phase], Phase)
=============================================================================
