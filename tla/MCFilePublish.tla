--------------------------- MODULE MCFilePublish ---------------------------
(***************************************************************************)
(* Values for checking FilePublish with TLC.  A behaviour is that of one   *)
(* team of processes, chosen at the start: two writers, two consumers and  *)
(* a copier, any of whom may die; two writers, a consumer and a copier,    *)
(* whose system calls may fail; or one writer, one consumer and two        *)
(* copiers, without faults.                                                *)
(***************************************************************************)
EXTENDS FilePublish

CONSTANTS w1, w2, c1, c2, k1, k2, a, d

TheWriters == {w1, w2}
TheConsumers == {c1, c2}
TheCopiers == {k1, k2}
TheNames == {a}
TheSizes == <<2, 1>>

VARIABLE team
Mortal == {w1, w2, c1, c2, k1}
Unlucky == {w1, w2, c1, k1}
Teams == {Mortal, Unlucky, {w1, c1, k1, k2}}

InTeam(p, A) == p \in team /\ A /\ UNCHANGED team
Step(p, A) == InTeam(p, A) /\ (team = Unlucky \/ faults' = faults)

MCInit == Init /\ team \in Teams
MCNext ==
  \/ \E w \in Writers : Step(w, Produce(w))
  \/ \E c \in Consumers : Step(c, Consume(c))
  \/ \E k \in Copiers : Step(k, Copyfile(k))
  \/ team = Mortal /\ \E p \in Procs : InTeam(p, Die(p))
MCSpec ==
  /\ MCInit /\ [][MCNext]_<<vars, team>>
  /\ \A c \in Consumers : WF_<<vars, team>>(Step(c, Consume(c)))

\* The properties say nothing once two cofiles have been open on one name, so
\* TLC need not go on from there.
NotClash == ~clash
=============================================================================
