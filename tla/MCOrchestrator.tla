--------------------------- MODULE MCOrchestrator ---------------------------
(***************************************************************************)
(* Small instances of Orchestrator.  The plans are those of PhasePlan for  *)
(* two configurations that together have a step of every kind: one runs    *)
(* the software phases only, the other the final delete only, with a ramp  *)
(* of one step.  A third one prepares and untars an archive.               *)
(***************************************************************************)
EXTENDS Orchestrator, TLC

Plan == INSTANCE PhasePlan

MCCfg(software, untar, enabled) ==
    LET base == [software |-> software, git |-> FALSE, untar |-> untar,
                 disabled |-> << >>]
        Off(p) == p \notin enabled
    IN  [base EXCEPT !.disabled = SelectSeq(Plan!EffectivePhaseOrder(base), Off)]

SoftwareOnly ==
    MCCfg(TRUE, FALSE, {"software_unpack", "software_cold", "software_warm"})

FinalDeleteOnly == MCCfg(FALSE, FALSE, {"final_delete"})

UntarOnly == MCCfg(FALSE, TRUE, {"untar"})

MCPhases == Plan!Phase

MCCfgs == {SoftwareOnly, FinalDeleteOnly}

OneCfg == {UntarOnly}

MCPlanOf == [c \in MCCfgs |-> Plan!RunSteps(c, 1)]

MCActiveOf == [c \in MCCfgs |-> Plan!ActivePhaseOrder(c)]

OnePlanOf == [c \in OneCfg |-> Plan!RunSteps(c, 1)]

OneActiveOf == [c \in OneCfg |-> Plan!ActivePhaseOrder(c)]

MCSymmetry == Permutations(Clients) \cup Permutations(Callers)
=============================================================================
