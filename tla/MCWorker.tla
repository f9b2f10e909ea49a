------------------------------ MODULE MCWorker ------------------------------
(***************************************************************************)
(* Small instances of Worker.                                              *)
(***************************************************************************)
EXTENDS Worker
=============================================================================
