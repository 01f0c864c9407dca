---------------------------- MODULE SignalFamily ----------------------------
(***************************************************************************)
(* The program of chapter 19-6: a father that forks a child every few      *)
(* seconds, and signals 15 and 2, which end the father and with it its     *)
(* children. All other signals are ignored, SIGCHLD too, so that the dead  *)
(* leave no zombies.                                                       *)
(*                                                                         *)
(* pc[p] is the place of process p: "none" not forked; "new" and "half", a *)
(* child before its two signal() calls; "run" in its loop; in an exit      *)
(* function, which never returns, "int" and "term" at its signal() calls,  *)
(* "kill" at kill(0) and "exit"; "gone". disp[p] holds its handlers,       *)
(* by[p] the exit function it runs, mask[p] the signals blocked meanwhile, *)
(* sigs[p] the signals that wait to be taken.                              *)
(***************************************************************************)
EXTENDS Naturals

CONSTANTS
  Father, Children,
  MaxSent         \* bound: signals sent from outside

VARIABLES pc, disp, by, mask, sigs, sent

vars == <<pc, disp, by, mask, sigs, sent>>
Members == Children \cup {Father}
Signals == {"SIGTERM", "SIGINT"}

\* The type invariant.
TypeOK ==
  /\ pc \in [Members -> {"none", "new", "half", "run", "int", "term", "kill", "exit", "gone"}]
  /\ disp \in [Members -> [Signals -> {"FathEXIT", "ChldEXIT", "SIG_IGN"}]]
  /\ by \in [Members -> {"FathEXIT", "ChldEXIT", "none"}]
  /\ mask \in [Members -> SUBSET Signals] /\ sigs \in [Members -> SUBSET Signals]
  /\ sent \in 0 .. MaxSent

\* The father has set its handlers.
disp0 == [s \in Signals |-> "FathEXIT"]
Init ==
  /\ pc = [p \in Members |-> IF p = Father THEN "run" ELSE "none"]
  /\ disp = [p \in Members |-> disp0]
  /\ by = [p \in Members |-> "none"]
  /\ mask = [p \in Members |-> {}] /\ sigs = [p \in Members |-> {}]
  /\ sent = 0

Goto(p, l) == pc' = [pc EXCEPT ![p] = l]
Alive(p) == pc[p] \notin {"none", "gone"}

-----------------------------------------------------------------------------
\* A signal to some processes; one that is ignored, or waits already, is lost.
Signalled(to, s) ==
  sigs' = [p \in Members |-> IF p \in to /\ Alive(p) /\ disp[p][s] # "SIG_IGN"
                           THEN sigs[p] \cup {s} ELSE sigs[p]]

\* signal(): a signal that waits is discarded when it is ignored from now on.
Sets(p, s, handler) ==
  /\ disp' = [disp EXCEPT ![p][s] = handler]
  /\ sigs' = IF handler = "SIG_IGN" THEN [sigs EXCEPT ![p] = @ \ {s}] ELSE sigs

\* From outside: kill of one process, or a signal to the group (Ctrl-C).
Send(s) ==
  /\ sent < MaxSent
  /\ sent' = sent + 1
  /\ \E to \in {{p} : p \in Members} \cup {Members} : Signalled(to, s)
  /\ UNCHANGED <<pc, disp, by, mask>>

\* The exit function of a signal begins, also within the one of the other signal.
Deliver(p) ==
  /\ Alive(p)
  /\ \E s \in sigs[p] \ mask[p] :
       /\ sigs' = [sigs EXCEPT ![p] = @ \ {s}]
       /\ mask' = [mask EXCEPT ![p] = @ \cup {s}]
       /\ by' = [by EXCEPT ![p] = disp[p][s]]
  /\ Goto(p, "int")
  /\ UNCHANGED <<disp, sent>>

\* main: the father forks; the child has its handlers until it sets its own.  If
\* fork fails (-1) the father takes itself for a child from now on.
Forking == pc[Father] = "run" /\ disp[Father]["SIGTERM"] = "FathEXIT"
ForkFails ==
  /\ Forking
  /\ Goto(Father, "new")
  /\ UNCHANGED <<disp, by, mask, sigs, sent>>
Fork(c) ==
  /\ Forking /\ pc[c] = "none"
  /\ Goto(c, "new")
  /\ disp' = [disp EXCEPT ![c] = disp[Father]]
  /\ UNCHANGED <<by, mask, sigs, sent>>

\* A wrong child: it ignores both signals.
SetTerm_Ignored(c) ==
  /\ pc[c] = "new"
  /\ Sets(c, "SIGTERM", "SIG_IGN")
  /\ Goto(c, "half")
  /\ UNCHANGED <<by, mask, sent>>

SetTerm(c) ==
  /\ pc[c] = "new"
  /\ Sets(c, "SIGTERM", "ChldEXIT")
  /\ Goto(c, "half")
  /\ UNCHANGED <<by, mask, sent>>

SetInt(c) ==
  /\ pc[c] = "half"
  /\ Sets(c, "SIGINT", "SIG_IGN")
  /\ Goto(c, "run")
  /\ UNCHANGED <<by, mask, sent>>

\* FathEXIT and ChldEXIT: both ignore SIGINT and then SIGTERM, and so no signal can
\* interrupt them any more ...
IgnoreInt(p) ==
  /\ pc[p] = "int"
  /\ Sets(p, "SIGINT", "SIG_IGN")
  /\ Goto(p, "term")
  /\ UNCHANGED <<by, mask, sent>>
IgnoreTerm(p) ==
  /\ pc[p] = "term"
  /\ Sets(p, "SIGTERM", "SIG_IGN")
  /\ mask' = [mask EXCEPT ![p] = {}]
  /\ Goto(p, IF by[p] = "FathEXIT" THEN "kill" ELSE "exit")
  /\ UNCHANGED <<by, sent>>

\* ... FathEXIT: kill(0, SIGTERM), to the whole group ...
KillAll(p) ==
  /\ pc[p] = "kill"
  /\ Signalled(Members, "SIGTERM")
  /\ Goto(p, "exit")
  /\ UNCHANGED <<disp, by, mask, sent>>

\* ... and exit; nothing of the process is left.
Exit(p) ==
  /\ pc[p] = "exit"
  /\ Goto(p, "gone")
  /\ disp' = [disp EXCEPT ![p] = disp0]
  /\ sigs' = [sigs EXCEPT ![p] = {}]
  /\ UNCHANGED <<by, mask, sent>>

Step(p) == Deliver(p) \/ SetTerm(p) \/ SetInt(p) \/ IgnoreInt(p) \/ IgnoreTerm(p) \/ KillAll(p) \/ Exit(p)
Next == \/ \E s \in Signals : Send(s)
        \/ ForkFails
        \/ \E c \in Children : Fork(c)
        \/ \E p \in Members : Step(p)

(***************************************************************************)
(* Fairness: every process keeps running; nobody has to fork or send.      *)
(***************************************************************************)
Spec == Init /\ [][Next]_vars
FairSpec == Spec /\ \A p \in Members : WF_vars(Step(p))

-----------------------------------------------------------------------------
\* When the father ends its children end too, also one that was just forked and
\* still has the father's handlers, and whichever signals come at what point; and
\* a child that ends by the father's handler takes the whole family along.  Only a
\* father whose fork failed may end by ChldEXIT, which leaves its children behind.
AllEnd ==
  (\E p \in Members : pc[p] = "gone" /\ by[p] = "FathEXIT")
    ~> (by[Father] = "ChldEXIT" \/ \A p \in Members : ~Alive(p))
=============================================================================
