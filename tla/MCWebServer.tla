---------------------------- MODULE MCWebServer -----------------------------
(***************************************************************************)
(* Values for checking WebServer with TLC.                                 *)
(***************************************************************************)
EXTENDS WebServer

CONSTANTS c1, c2

TwoClients == {c1, c2}
TwoHandles == 1 .. 2
=============================================================================
