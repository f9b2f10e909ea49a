-------------------------- MODULE MCClientSessions --------------------------
(***************************************************************************)
(* Small instances of ClientSessions.                                      *)
(***************************************************************************)
EXTENDS ClientSessions, TLC

MCSymmetry == Permutations(Clients) \cup Permutations(Conns)
=============================================================================
