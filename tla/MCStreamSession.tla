--------------------------- MODULE MCStreamSession ---------------------------
(***************************************************************************)
(* StreamSession for TLC.  Pipes of one message clog soonest.              *)
(***************************************************************************)
EXTENDS StreamSession

FewNotes == [end \in Ends |-> 2]
=============================================================================
