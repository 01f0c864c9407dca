---------------------------- MODULE MCCheckproc ----------------------------
(***************************************************************************)
(* Values for checking Checkproc with TLC.                                 *)
(***************************************************************************)
EXTENDS Checkproc

CONSTANTS p1, p2

TwoProcs == {p1, p2}
=============================================================================
