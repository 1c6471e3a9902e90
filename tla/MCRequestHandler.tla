-------------------------- MODULE MCRequestHandler --------------------------
(***************************************************************************)
(* RequestHandler for TLC.  The callers are model values; no symmetry is   *)
(* used because the run checks liveness, too.                              *)
(***************************************************************************)
EXTENDS RequestHandler
=============================================================================
