---------------------------- MODULE RunLifecycle ----------------------------
(***************************************************************************)
(* What the controller promises about runs, without goroutines, phases or  *)
(* messages.  A run is active until it ends, and it may be stopped or fail *)
(* on the way:                                                             *)
(*                                                                         *)
(*   idle --Start--> active --Stop--> stopping                             *)
(*                     |                  |                                *)
(*                     +---- Lose --------+---> failing                    *)
(*                                                                         *)
(* From each of the three it ends, and the result tells which it was.      *)
(* Only a run asked to stop may end either way, as it may be over already. *)
(***************************************************************************)
CONSTANT Clients

VARIABLES
    mode,          \* idle, active, stopping or failing
    participants,  \* the clients of the active run
    result         \* how the last run ended

lifecycle == <<mode, participants, result>>

LInit ==
    /\ mode = "idle"
    /\ participants = {}
    /\ result = "Ready"

LStart(P) ==
    /\ mode = "idle"
    /\ P # {}
    /\ mode' = "active"
    /\ participants' = P
    /\ result' = "none"

LStop ==
    /\ mode = "active"
    /\ mode' = "stopping"
    /\ UNCHANGED <<participants, result>>

LLose ==
    /\ mode \in {"active", "stopping"}
    /\ mode' = "failing"
    /\ UNCHANGED <<participants, result>>

Results(m) ==
    CASE m = "active"   -> {"Completed"}
      [] m = "stopping" -> {"Stopped", "Completed"}
      [] m = "failing"  -> {"Failed"}
      [] OTHER          -> {}

LEnd ==
    /\ mode # "idle"
    /\ mode' = "idle"
    /\ participants' = {}
    /\ result' \in Results(mode)

LNext ==
    \/ \E P \in SUBSET Clients : LStart(P)
    \/ LStop
    \/ LLose
    \/ LEnd

LSpec == LInit /\ [][LNext]_lifecycle

LFairSpec == LSpec /\ WF_lifecycle(LEnd)
=============================================================================
