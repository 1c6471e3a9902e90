-------------------------- MODULE MCHttpTransport --------------------------
(***************************************************************************)
(* HttpTransport for TLC.                                                  *)
(***************************************************************************)
EXTENDS HttpTransport
=============================================================================
