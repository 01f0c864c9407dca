------------------------------ MODULE Cpactive ------------------------------
(***************************************************************************)
(* The heartbeat class cpactive (public.h, public.cpp): service processes  *)
(* register in a table in shared memory, refresh their record, and remove  *)
(* it in the destructor.  addpinfo takes the System V semaphore of Csemp;  *)
(* its first scan, uptatime and the destructor take no lock.               *)
(*                                                                         *)
(* A process identity p of Procs is a pid; it is reused when a new process *)
(* starts after the old one died.  table[s] is slot s of the shared array: *)
(*   pid    the owner, or NoPid for an empty slot                          *)
(*   limit  the timeout field (0 in a zeroed slot)                         *)
(*   due    the seconds left before atime + timeout, saturated at 0        *)
(* The daemon only evaluates now-atime < timeout, which is due > 0.        *)
(* memcpy and memset of a record are several stores, in ascending order:   *)
(* pid first, then the other fields.                                       *)
(*                                                                         *)
(* st[p] is the place of p in the code:                                    *)
(*   "none"    no process has this pid                                     *)
(*   "start"   running, before the unlocked scan of addpinfo               *)
(*   "init"    in semp.init          "wait"    in semp.wait                *)
(*   "search"  looking for an empty slot; idx[p] is the loop index         *)
(*   "copy"    about to memcpy       "copied"  pid written, the rest not   *)
(*   "post"    about to semp.post                                          *)
(*   "run"     addpinfo returned true                                      *)
(*   "failed"  addpinfo returned false                                     *)
(*   "wipe"    in ~cpactive, pid zeroed, the rest of the record not        *)
(*   "exit"    ~cpactive finished                                          *)
(* rest[p] is a history variable: the seconds left before p itself owes a  *)
(* sign of life, counted from its start or last addpinfo or uptatime.      *)
(***************************************************************************)
EXTENDS Integers, FiniteSets

CONSTANTS
  Procs, MaxSem, SemVmx, MaxEintr,   \* see Csemp
  NoPid,      \* the pid 0 of an empty slot
  MaxNump,    \* MAXNUMP, the number of slots
  Timeout,    \* the timeout every service registers with, in seconds
  IpcFails    \* TRUE if shmget or semget may fail

ASSUME CpactiveAssumption ==
  /\ MaxSem \in Nat \ {0}
  /\ SemVmx \in Nat \ {0}
  /\ MaxEintr \in Nat
  /\ NoPid \notin Procs
  /\ MaxNump \in Nat \ {0}
  /\ Timeout \in Nat
  /\ IpcFails \in BOOLEAN

VARIABLES kern, last, adj, semid, pc, eintr      \* the semaphore, see Csemp
VARIABLES table, st, pos, idx, rest

semVars == <<kern, last, adj, semid, pc, eintr>>
vars == <<kern, last, adj, semid, pc, eintr, table, st, pos, idx, rest>>

\* Nobody calls csemp::destroy on the semaphore of the heartbeat table.
Semp == INSTANCE Csemp WITH Destroyers <- {}, SemgetFails <- IpcFails

Slots == 1 .. MaxNump
NoSlot == 0                                \* m_pos = -1
Record == [pid : Procs \cup {NoPid}, limit : {0, Timeout}, due : 0 .. Timeout]
Zeroed == [pid |-> NoPid, limit |-> 0, due |-> 0]
St == {"none", "start", "init", "wait", "search", "copy", "copied", "post",
       "run", "failed", "wipe", "exit"}

\* The type invariant.
TableTypeOK ==
  /\ table \in [Slots -> Record]
  /\ st \in [Procs -> St]
  /\ pos \in [Procs -> Slots \cup {NoSlot}]
  /\ idx \in [Procs -> Slots]
  /\ rest \in [Procs -> 0 .. Timeout]

TypeOK == Semp!TypeOK /\ TableTypeOK

Init ==
  /\ Semp!Init
  /\ table = [s \in Slots |-> Zeroed]
  /\ st = [p \in Procs |-> "none"]
  /\ pos = [p \in Procs |-> NoSlot]
  /\ idx = [p \in Procs |-> 1]
  /\ rest = [p \in Procs |-> 0]

At(p, l) == st[p] = l
Move(p, l) == st' = [st EXCEPT ![p] = l]
Alive(p) == st[p] # "none"

-----------------------------------------------------------------------------
\* A process starts with pid p; its cpactive object has m_pos = -1.
Start(p) ==
  /\ At(p, "none")
  /\ Move(p, "start")
  /\ rest' = [rest EXCEPT ![p] = Timeout]
  /\ UNCHANGED <<semVars, table, pos, idx>>

\* addpinfo: shmget fails and the call returns false.
ShmgetFails(p) ==
  /\ IpcFails
  /\ At(p, "start")
  /\ Move(p, "failed")
  /\ UNCHANGED <<semVars, table, pos, idx, rest>>

(***************************************************************************)
(* addpinfo, the unlocked scan for a record left under the caller's pid.   *)
(* One step stands for the loop: only the owner of a pid writes that pid   *)
(* into a slot, so while p scans such records can only vanish, and the     *)
(* loop's outcome is the one an instantaneous scan gives when it last      *)
(* looks at a slot.                                                        *)
(***************************************************************************)

\* A wrong scan: no slot is looked at.
Mine_None(p) == {}

Mine(p) == {s \in Slots : table[s].pid = p}

Scan(p) ==
  /\ At(p, "start")
  /\ \/ Mine(p) = {} /\ pos' = [pos EXCEPT ![p] = NoSlot]
     \/ \E s \in Mine(p) : /\ \A t \in Mine(p) : s <= t
                           /\ pos' = [pos EXCEPT ![p] = s]
  /\ rest' = [rest EXCEPT ![p] = Timeout]
  /\ Semp!Construct(p)
  /\ Move(p, "init")
  /\ UNCHANGED <<table, idx>>

\* addpinfo: semp.init(SEMKEYP).
SempInit(p) ==
  /\ At(p, "init")
  /\ Semp!InitStep(p)
  /\ Move(p, CASE pc'[p] = "ready"  -> "wait"
               [] pc'[p] = "failed" -> "failed"
               [] OTHER             -> "init")
  /\ UNCHANGED <<table, pos, idx, rest>>

\* A wrong addpinfo: the wait is forgotten.
SempWait_Forgotten(p) ==
  /\ At(p, "wait")
  /\ Move(p, IF pos[p] = NoSlot THEN "search" ELSE "copy")
  /\ UNCHANGED <<semVars, table, pos, idx, rest>>

\* addpinfo: semp.wait(), whose result is ignored.
SempWait(p) ==
  /\ At(p, "wait")
  /\ Semp!Wait(p) \/ Semp!WaitInterrupted(p)
  /\ Move(p, IF pos[p] = NoSlot THEN "search" ELSE "copy")
  /\ UNCHANGED <<table, pos, idx, rest>>

\* A wrong test: a full table is not noticed.
Free_OrLast(p) == table[idx[p]].pid = NoPid \/ idx[p] = MaxNump

Free(p) == table[idx[p]].pid = NoPid
LastTurn(p) == idx[p] = MaxNump

\* addpinfo: one turn of the loop that looks for an empty slot; the loop
\* variable goes back to its first value when the loop ends.
Search(p) ==
  /\ At(p, "search")
  /\ \/ /\ Free(p)
        /\ pos' = [pos EXCEPT ![p] = idx[p]]
        /\ idx' = [idx EXCEPT ![p] = 1]
        /\ Move(p, "copy")
     \/ /\ ~Free(p) /\ ~LastTurn(p)
        /\ idx' = [idx EXCEPT ![p] = @ + 1]
        /\ UNCHANGED <<st, pos>>
     \/ /\ ~Free(p) /\ LastTurn(p)
        /\ idx' = [idx EXCEPT ![p] = 1]
        /\ Move(p, "post")
        /\ UNCHANGED pos
  /\ UNCHANGED <<semVars, table, rest>>

\* addpinfo: memcpy of the record, the pid first ...
CopyPid(p) ==
  /\ At(p, "copy")
  /\ table' = [table EXCEPT ![pos[p]].pid = p]
  /\ Move(p, "copied")
  /\ UNCHANGED <<semVars, pos, idx, rest>>

\* ... then timeout and atime (atime was taken when addpinfo was called).
CopyRest(p) ==
  /\ At(p, "copied")
  /\ table' = [table EXCEPT ![pos[p]].limit = Timeout,
                            ![pos[p]].due = rest[p]]
  /\ Move(p, "post")
  /\ UNCHANGED <<semVars, pos, idx, rest>>

\* A wrong addpinfo: it returns without the post.
SempPost_Forgotten(p) ==
  /\ At(p, "post")
  /\ Move(p, IF pos[p] = NoSlot THEN "failed" ELSE "run")
  /\ UNCHANGED <<semVars, table, pos, idx, rest>>

\* addpinfo: semp.post(), then true if a slot was found and false otherwise.
SempPost(p) ==
  /\ At(p, "post")
  /\ Semp!Post(p)
  /\ Move(p, IF pos[p] = NoSlot THEN "failed" ELSE "run")
  /\ UNCHANGED <<table, pos, idx, rest>>

\* addpinfo called again after a failure: true at once if m_pos is set.
AddAgain(p) ==
  /\ At(p, "failed")
  /\ Move(p, IF pos[p] = NoSlot THEN "start" ELSE "run")
  /\ UNCHANGED <<semVars, table, pos, idx, rest>>

\* uptatime: writes atime only, without the lock.
Uptatime(p) ==
  /\ At(p, "run")
  /\ table' = [table EXCEPT ![pos[p]].due = table[pos[p]].limit]
  /\ rest' = [rest EXCEPT ![p] = Timeout]
  /\ UNCHANGED <<semVars, st, pos, idx>>

(***************************************************************************)
(* ~cpactive: memset of the record, without the lock, the pid first.  It   *)
(* runs on a normal return of main and, for a static object, when a signal *)
(* handler calls exit(), which can be anywhere in addpinfo.                *)
(***************************************************************************)
Destruct(p) ==
  /\ st[p] \notin {"none", "wipe", "exit"}
  /\ IF pos[p] = NoSlot
     THEN Move(p, "exit") /\ UNCHANGED table
     ELSE /\ Move(p, "wipe")
          /\ table' = [table EXCEPT ![pos[p]].pid = NoPid]
  /\ UNCHANGED <<semVars, pos, idx, rest>>

DestructRest(p) ==
  /\ At(p, "wipe")
  /\ table' = [table EXCEPT ![pos[p]].limit = 0, ![pos[p]].due = 0]
  /\ Move(p, "exit")
  /\ UNCHANGED <<semVars, pos, idx, rest>>

\* The process dies anywhere: it crashes, is killed, or has finished exiting.
Die(p) ==
  /\ Alive(p)
  /\ Move(p, "none")
  /\ pos' = [pos EXCEPT ![p] = NoSlot]
  /\ idx' = [idx EXCEPT ![p] = 1]
  /\ rest' = [rest EXCEPT ![p] = 0]
  /\ IF pc[p] = "none" THEN UNCHANGED semVars ELSE Semp!Die(p)
  /\ UNCHANGED table

\* One second passes.
Sub1(n) == IF n > 0 THEN n - 1 ELSE 0
Tick ==
  /\ table' = [s \in Slots |-> [table[s] EXCEPT !.due = Sub1(@)]]
  /\ rest' = [p \in Procs |-> Sub1(rest[p])]
  /\ UNCHANGED <<semVars, st, pos, idx>>

ProcStep(p) ==
  \/ Start(p) \/ ShmgetFails(p) \/ Scan(p) \/ SempInit(p) \/ SempWait(p)
  \/ Search(p) \/ CopyPid(p) \/ CopyRest(p) \/ SempPost(p) \/ AddAgain(p)
  \/ Uptatime(p) \/ Destruct(p) \/ DestructRest(p) \/ Die(p)

Next == Tick \/ \E p \in Procs : ProcStep(p)

(***************************************************************************)
(* Fairness: a running process goes on inside a call (weak fairness), and  *)
(* the kernel does not pass over a sleeper for ever (strong fairness).     *)
(* Nothing forces a process to start, beat, exit or die.                   *)
(***************************************************************************)
Fairness ==
  \A p \in Procs :
    /\ WF_vars(Scan(p)) /\ WF_vars(SempInit(p)) /\ SF_vars(SempWait(p))
    /\ WF_vars(Search(p)) /\ WF_vars(CopyPid(p)) /\ WF_vars(CopyRest(p))
    /\ WF_vars(SempPost(p))
    /\ WF_vars(DestructRest(p)) /\ WF_vars(At(p, "exit") /\ Die(p))

Spec == Init /\ [][Next]_vars
FairSpec == Spec /\ Fairness

-----------------------------------------------------------------------------
\* The processes between semp.wait and semp.post.
Critical == {p \in Procs : st[p] \in {"search", "copy", "copied", "post"}}

\* addpinfo's comments on wait and post (public.cpp:1678): the shared table is
\* locked while a process looks for a slot and fills it.  addpinfo goes on even
\* when a handler has ended its wait(), so this holds until that happens.
TableLocked == eintr = 0 => \A p, q \in Critical : p = q

\* A process owns the slot at m_pos until its destructor has given it up.
Owns(p, s) == pos[p] = s /\ s # NoSlot /\ st[p] \notin {"none", "wipe", "exit"}

\* No two processes own one slot, although the scan for an old record and the
\* destructor run without the lock and pids are reused after a crash, as long as
\* no wait() has been interrupted.
OneOwner ==
  eintr = 0 => \A p, q \in Procs : \A s \in Slots : Owns(p, s) /\ Owns(q, s) => p = q

\* While addpinfo's caller runs, the slot it heartbeats into carries its pid:
\* no other process registered over it or removed it, as long as no wait() has
\* been interrupted.
RecordKept == eintr = 0 => \A p \in Procs : At(p, "run") => table[pos[p]].pid = p

\* At most one slot carries a given pid: a restarted process takes over the
\* record its predecessor left behind instead of adding a second one.
OneRecord == \A s, t \in Slots :
                 table[s].pid = table[t].pid /\ table[s].pid # NoPid => s = t

\* The inductive invariant behind TableLocked, OneOwner and RecordKept.  From
\* the moment m_pos is set the slot carries the owner's pid, except that it is
\* still empty between the search and memcpy, which the lock covers.
InLock ==
  \A p \in Procs :
    /\ st[p] = "wait" => pc[p] = "ready"
    /\ p \in Critical => pc[p] = "hold"
    /\ pc[p] \in {"setval", "ready", "hold"} => Semp!Valid(p)

PosSet ==
  \A p \in Procs :
    /\ st[p] \in {"copy", "copied", "run", "wipe"} => pos[p] # NoSlot
    /\ st[p] \in {"none", "start", "search"} => pos[p] = NoSlot

Claimed ==
  \A p \in Procs : \A s \in Slots :
    Owns(p, s) => \/ table[s].pid = p
                  \/ st[p] = "copy" /\ table[s].pid = NoPid

SempHeld == eintr = 0 => Semp!LockHeld
OwnersHeld == eintr = 0 => InLock /\ Claimed

TableInv == TypeOK /\ PosSet /\ SempHeld /\ OwnersHeld

\* The inductive invariant behind OneRecord: once p has scanned the table, a
\* record with its pid is the one at m_pos.
Scanned(p) ==
  \/ st[p] \in {"init", "wait", "search", "copy", "copied", "post", "run", "wipe"}
  \/ st[p] \in {"failed", "exit"} /\ pos[p] # NoSlot
Single ==
  \A p \in Procs : \A s \in Slots :
    Scanned(p) /\ table[s].pid = p => pos[p] = s

\* addpinfo returns, whatever the other processes do, die or restart, unless
\* the creator of the semaphore died before SETVAL.
AddReturns ==
  \A p \in Procs :
     At(p, "start") ~> (st[p] \in {"run", "failed", "wipe", "exit", "none"} \/ Semp!Orphan)
=============================================================================
