---------------------------- MODULE MCSendQueue -----------------------------
(***************************************************************************)
(* Small instances of SendQueue.                                           *)
(***************************************************************************)
EXTENDS SendQueue
=============================================================================
