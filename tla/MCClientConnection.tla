------------------------- MODULE MCClientConnection -------------------------
(***************************************************************************)
(* ClientConnection for TLC; the configurations differ in what callbacks   *)
(* do with their context and in the number of connections.                 *)
(***************************************************************************)
EXTENDS ClientConnection
=============================================================================
