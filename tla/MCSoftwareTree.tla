--------------------------- MODULE MCSoftwareTree ---------------------------
(***************************************************************************)
(* Small instances of SoftwareTree.                                        *)
(***************************************************************************)
EXTENDS SoftwareTree

CONSTANT p1

\* All clients have the same prefix; the others have no client.
FirstPrefix == [c \in Clients |-> p1]
=============================================================================
