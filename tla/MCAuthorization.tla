--------------------------- MODULE MCAuthorization ---------------------------
(***************************************************************************)
(* Authorization for TLC: registration that returns the redirect URI asked *)
(* for, leaves it out, or returns another one; the port is not 8080.       *)
(***************************************************************************)
EXTENDS Authorization

RedirectUris == {<<Listened>>, <<>>, <<Unparsable>>}
=============================================================================
