--------------------------- MODULE MCPhaseConfig ---------------------------
(***************************************************************************)
(* Small instances of PhaseConfig.  The submitted configurations list      *)
(* phases out of order, alone out of their group, and outside the plan;    *)
(* `Almost' leaves only the phases of MCToggles enabled, so that a few     *)
(* clicks reach the last enabled phase.                                    *)
(***************************************************************************)
EXTENDS PhaseConfig

Almost == <<"riops", "read_bw", "read_write", "final_delete">>

Cfg(software, git, disabled) ==
    [software |-> software, git |-> git, untar |-> FALSE,
     disabled |-> disabled]

MCDefault == [software |-> TRUE, git |-> TRUE, untar |-> TRUE,
              disabled |-> << >>]

MCInputs ==
    {Cfg(TRUE, FALSE, <<"delete", "software_warm", "create", "idle">>),
     Cfg(TRUE, FALSE, Almost),
     Cfg(FALSE, TRUE, Almost)}

MCToggles == {"software_cold", "git_clone", "delete", "write_bw"}
=============================================================================
