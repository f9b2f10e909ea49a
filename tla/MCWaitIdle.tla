----------------------------- MODULE MCWaitIdle -----------------------------
(***************************************************************************)
(* Small instances of WaitIdle.                                            *)
(***************************************************************************)
EXTENDS WaitIdle, TLC
=============================================================================
