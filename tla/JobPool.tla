------------------------------ MODULE JobPool ------------------------------
(***************************************************************************)
(* What a pool of worker threads promises the program that gives it jobs:  *)
(* every job given is started at most once, by at most Width jobs at a     *)
(* time, and dropped only when the pool is shut down.  This is the         *)
(* abstract specification WorkQueue is shown to implement.                 *)
(***************************************************************************)
EXTENDS Naturals, FiniteSets

CONSTANTS Jobs, Width

VARIABLES pending, running, done
vars == <<pending, running, done>>

Init == pending = {} /\ running = {} /\ done = {}

Add(j) ==
  /\ j \notin pending \cup running \cup done
  /\ pending' = pending \cup {j}
  /\ UNCHANGED <<running, done>>

Start(j) ==
  /\ j \in pending
  /\ Cardinality(running) < Width
  /\ pending' = pending \ {j}
  /\ running' = running \cup {j}
  /\ UNCHANGED done

Finish(j) ==
  /\ j \in running
  /\ running' = running \ {j}
  /\ done' = done \cup {j}
  /\ UNCHANGED pending

\* The pool is shut down.
Drop == pending' = {} /\ UNCHANGED <<running, done>>

Next == Drop \/ \E j \in Jobs : Add(j) \/ Start(j) \/ Finish(j)

Spec == Init /\ [][Next]_vars
=============================================================================
