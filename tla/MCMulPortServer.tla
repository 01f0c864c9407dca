-------------------------- MODULE MCMulPortServer --------------------------
(***************************************************************************)
(* Values for checking MulPortServer with TLC.                             *)
(***************************************************************************)
EXTENDS MulPortServer, TLC

CONSTANTS c1, c2, w1, w2

TwoClients == {c1, c2}
TwoWorkers == {w1, w2}
Symmetry == Permutations(Clients) \cup Permutations(Workers)
=============================================================================
