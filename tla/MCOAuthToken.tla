---------------------------- MODULE MCOAuthToken ----------------------------
(***************************************************************************)
(* OAuthToken for TLC.                                                     *)
(***************************************************************************)
EXTENDS OAuthToken
=============================================================================
