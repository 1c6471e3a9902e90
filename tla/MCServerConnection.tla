------------------------- MODULE MCServerConnection -------------------------
(***************************************************************************)
(* ServerConnection for TLC.                                               *)
(***************************************************************************)
EXTENDS ServerConnection, TLC

\* Requests differ in nothing but their id.
RequestSymmetry == Permutations(Requests)
=============================================================================
