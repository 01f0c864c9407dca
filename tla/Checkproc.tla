----------------------------- MODULE Checkproc -----------------------------
(***************************************************************************)
(* The guard daemon checkproc (mdc, section 3 of the scheduling chapter)   *)
(* composed with the services of Cpactive.  procctl runs it again and      *)
(* again; one run visits every slot of the table, without the lock, and    *)
(* reads shm[ii].pid afresh for every kill():                              *)
(*                                                                         *)
(*   dpc "idle"   procctl sleeps until the next run                        *)
(*       "look"   at the test pid==0 of slot di                            *)
(*       "probe"  at the first kill(pid,0)                                 *)
(*       "erase"  that kill failed: at the memset of the dead record       *)
(*       "age"    at the test now-atime<timeout                            *)
(*       "term"   at kill(pid,15)                                          *)
(*       "poll"   in the loop of sleep(1) and kill(pid,0), dj turns made   *)
(*       "kill"   at kill(pid,9)                                           *)
(*       "clear"  at the last memset                                       *)
(*       "wipe"   in either memset, the pid of slot di zeroed              *)
(*       "dead"   SIGKILL hit the daemon's own process group               *)
(*                                                                         *)
(* kill(0,sig) signals the caller's process group.  The daemon ignores     *)
(* signal 15 but nobody can ignore 9; procctl has called neither setsid    *)
(* nor setpgid, so it is in that group and dies too.  Other members of the *)
(* group are outside the model.                                            *)
(***************************************************************************)
EXTENDS Cpactive

CONSTANT Polls       \* turns of the polling loop (5 in the code)
ASSUME CheckprocAssumption == Polls \in Nat \ {0}

VARIABLES dpc, di, dj

dVars == <<dpc, di, dj>>
allVars == <<vars, dpc, di, dj>>
tableVars == <<semVars, st, pos, idx, rest>>

DaemonTypeOK ==
  /\ dpc \in {"idle", "look", "probe", "erase", "age", "term", "poll", "kill", "clear",
              "wipe", "dead"}
  /\ di \in Slots
  /\ dj \in 0 .. Polls

CInit == Init /\ dpc = "idle" /\ di = 1 /\ dj = 0

Here == table[di].pid                          \* shm[ii].pid, read now
KillFails == Here # NoPid /\ ~Alive(Here)      \* kill(shm[ii].pid,0) == -1

\* A wrong test: the comparison with timeout is turned round.
Overdue_Inverted == table[di].due > 0

Overdue == table[di].due = 0                   \* now-atime >= timeout

-----------------------------------------------------------------------------
\* procctl starts a run.
Run == /\ dpc = "idle"
       /\ dpc' = "look"
       /\ UNCHANGED <<vars, di, dj>>

\* The loop goes on with the next slot; after the last one the run ends.
NextSlot ==
  /\ IF di < MaxNump THEN di' = di + 1 /\ dpc' = "look"
                     ELSE di' = 1 /\ dpc' = "idle"
  /\ dj' = 0

Look ==
  /\ dpc = "look"
  /\ \/ Here = NoPid /\ NextSlot
     \/ Here # NoPid /\ dpc' = "probe" /\ UNCHANGED <<di, dj>>
  /\ UNCHANGED vars

Probe ==
  /\ dpc = "probe"
  /\ dpc' = IF KillFails THEN "erase" ELSE "age"
  /\ UNCHANGED <<vars, di, dj>>

\* A wrong memset: it leaves the pid in the record.
Erase_KeepsPid ==
  /\ dpc \in {"erase", "clear"}
  /\ dpc' = "wipe"
  /\ UNCHANGED <<vars, di, dj>>

\* memset of slot di, after the failed probe or at the end: the pid first ...
Erase ==
  /\ dpc \in {"erase", "clear"}
  /\ table' = [table EXCEPT ![di].pid = NoPid]
  /\ dpc' = "wipe"
  /\ UNCHANGED <<tableVars, di, dj>>

\* ... then the rest of the record.
EraseRest ==
  /\ dpc = "wipe"
  /\ table' = [table EXCEPT ![di].limit = 0, ![di].due = 0]
  /\ NextSlot
  /\ UNCHANGED tableVars

Age ==
  /\ dpc = "age"
  /\ \/ ~Overdue /\ NextSlot
     \/ Overdue /\ dpc' = "term" /\ UNCHANGED <<di, dj>>
  /\ UNCHANGED vars

\* kill(shm[ii].pid,15).  A service may answer it with ~cpactive, by dying or
\* not at all; all three are steps of Cpactive.
Term ==
  /\ dpc = "term"
  /\ dpc' = "poll"
  /\ UNCHANGED <<vars, di, dj>>

\* One turn: sleep(1), during which the services go on, then kill(pid,0).
Poll ==
  /\ dpc = "poll"
  /\ \/ KillFails /\ dpc' = "clear" /\ dj' = 0
     \/ ~KillFails /\ dj + 1 < Polls /\ dj' = dj + 1 /\ UNCHANGED dpc
     \/ ~KillFails /\ dj + 1 = Polls /\ dj' = 0 /\ dpc' = "kill"
  /\ UNCHANGED <<vars, di>>

\* kill(shm[ii].pid,9).
Kill ==
  /\ dpc = "kill"
  /\ \/ /\ Here = NoPid
        /\ dpc' = "dead"
        /\ UNCHANGED vars
     \/ /\ Here # NoPid
        /\ dpc' = "clear"
        /\ IF Alive(Here) THEN Die(Here) ELSE UNCHANGED vars
  /\ UNCHANGED <<di, dj>>

Daemon == Run \/ Look \/ Probe \/ Erase \/ EraseRest \/ Age \/ Term \/ Poll \/ Kill

CNext == \/ Daemon
         \/ Next /\ UNCHANGED dVars

(***************************************************************************)
(* Fairness: that of Cpactive, time passes, and the daemon keeps running   *)
(* (it never blocks: it takes no lock).                                    *)
(***************************************************************************)
CSpec == CInit /\ [][CNext]_allVars
CFairSpec == CSpec /\ Fairness /\ WF_allVars(Daemon) /\ WF_allVars(Tick /\ UNCHANGED dVars)

-----------------------------------------------------------------------------
\* The daemon's erasures, made without the lock, leave the lock's promise and
\* the uniqueness of records alone: one process at a time fills a slot, and no
\* pid ever has two records, whichever records vanish under a registration.
OneFiller == TableLocked /\ OneRecord

\* A record left by a process that died is removed: it does not stay for ever
\* while its pid is unused, unless the daemon has killed itself.
ResidueRemoved ==
  \A p \in Procs, s \in Slots :
    (table[s].pid = p /\ ~Alive(p))
      ~> (table[s].pid # p \/ Alive(p) \/ dpc = "dead")

\* A service that stops beating does not run for ever under its own record:
\* it ends or loses the record, unless another process came to share the slot
\* or the daemon has killed itself.
HungEnds ==
  \A p \in Procs :
    []<>(\/ ~(At(p, "run") /\ table[pos[p]].pid = p /\ rest[p] = 0)
         \/ \E q \in Procs \ {p} : pos[q] = pos[p]
         \/ dpc = "dead")
=============================================================================
