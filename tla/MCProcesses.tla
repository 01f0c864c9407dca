---------------------------- MODULE MCProcesses ----------------------------
(***************************************************************************)
(* Values for checking with TLC two programs of several processes: a       *)
(* behaviour is one of Csemp, processes that share a semaphore, or one of  *)
(* SignalFamily, a father and its children (part), and the variables of    *)
(* the other keep their first values.                                      *)
(***************************************************************************)
EXTENDS Csemp

CONSTANTS p1, p2, p3, Father, Children, c1, c2, MaxSent

VARIABLES part, place, disp, by, mask, sigs, sent

familyvars == <<place, disp, by, mask, sigs, sent>>
allvars == <<part, vars, familyvars>>

AllProcs == {p1, p2, p3}
OneProc == {p1}
TwoChildren == {c1, c2}

Family == INSTANCE SignalFamily WITH pc <- place

InSemp(A) == part = "semaphore" /\ A /\ UNCHANGED <<part, familyvars>>
InFamily(A) == part = "family" /\ A /\ UNCHANGED <<part, vars>>

MCInit == part \in {"semaphore", "family"} /\ Init /\ Family!Init
MCNext == InSemp(Next) \/ InFamily(Family!Next)

\* The fairness of the two specifications, each in its part.
MCSpec ==
  /\ MCInit /\ [][MCNext]_allvars
  /\ \A p \in Procs : /\ WF_allvars(InSemp(InitStep(p)))
                      /\ SF_allvars(InSemp(Wait(p)))
                      /\ WF_allvars(InSemp(Post(p)))
  /\ \A p \in Family!Members : WF_allvars(InFamily(Family!Step(p)))

\* The children end with the father (FathEXIT), as SignalFamily states.
AllEnd == Family!AllEnd
=============================================================================
