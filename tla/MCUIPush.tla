------------------------------ MODULE MCUIPush ------------------------------
(***************************************************************************)
(* Small instances of UIPush.                                              *)
(***************************************************************************)
EXTENDS UIPush, TLC

SomeBrowsers == Permutations(Browsers)
SomeFlushers == Permutations(Flushers)
Symmetry == SomeBrowsers \cup SomeFlushers
=============================================================================
