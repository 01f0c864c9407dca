----------------------------- MODULE MCCpactive -----------------------------
(***************************************************************************)
(* Values for checking Cpactive with TLC.                                  *)
(***************************************************************************)
EXTENDS Cpactive, TLC

CONSTANTS p1, p2, p3

AllProcs == {p1, p2, p3}
Symmetry == Permutations(Procs)
=============================================================================
