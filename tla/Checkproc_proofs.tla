-------------------------- MODULE Checkproc_proofs --------------------------
(***************************************************************************)
(* Proofs about the heartbeat table of Cpactive for every value of the     *)
(* constants: it keeps its types and, for as long as no wait() has been    *)
(* interrupted by a signal handler, slots have one owner and registered    *)
(* processes keep their record.  Then the same table with the guard daemon *)
(* of Checkproc, which erases records without the lock: what it leaves of  *)
(* these promises.                                                         *)
(***************************************************************************)
EXTENDS Checkproc, TLAPS

SempP == INSTANCE Csemp_proofs WITH Destroyers <- {}, SemgetFails <- IpcFails

\* Every step of a process is a step of the semaphore's protocol or leaves the
\* semaphore alone.
LEMMA StepUsesCsemp == [Next]_vars => [Semp!Next]_(Semp!vars)
<1> SUFFICES ASSUME [Next]_vars PROVE [Semp!Next]_(Semp!vars)
  OBVIOUS
<1> USE DEF Semp!Next, Semp!vars, Semp!InitStep, semVars
<1>1. CASE Tick
  BY <1>1 DEF Tick
<1>2. ASSUME NEW p \in Procs, ProcStep(p) PROVE [Semp!Next]_(Semp!vars)
  BY <1>2 DEF ProcStep, Start, ShmgetFails, Scan, SempInit, SempWait, Search,
     CopyPid, CopyRest, SempPost, AddAgain, Uptatime, Destruct, DestructRest, Die
<1>3. CASE UNCHANGED vars
  BY <1>3 DEF vars
<1> QED
  BY <1>1, <1>2, <1>3 DEF Next

\* The two instances of Csemp are the same specification.
LEMMA SameInit == Semp!Init => SempP!Init
  BY DEF Semp!Init, SempP!Init, Semp!NoSem, SempP!NoSem

LEMMA SameStep == [Semp!Next]_(Semp!vars) => [SempP!Next]_(SempP!vars)
  BY DEF Semp!Next, SempP!Next, Semp!vars, SempP!vars,
     Semp!Construct, SempP!Construct, Semp!InitGet, SempP!InitGet,
     Semp!InitCreate, SempP!InitCreate, Semp!InitAgain, SempP!InitAgain,
     Semp!InitSetval, SempP!InitSetval, Semp!Wait, SempP!Wait, Semp!Takeable, SempP!Takeable,
     Semp!WaitInterrupted, SempP!WaitInterrupted, Semp!Post, SempP!Post,
     Semp!Destroy, SempP!Destroy, Semp!Die, SempP!Die, Semp!Undo, SempP!Undo,
     Semp!Valid, SempP!Valid, Semp!Exists, SempP!Exists, Semp!Goto, SempP!Goto,
     Semp!NoSem, SempP!NoSem

LEMMA SpecUsesP == Spec => SempP!Spec
<1>1. Init => SempP!Init
  BY SameInit DEF Init
<1>2. [Next]_vars => [SempP!Next]_(SempP!vars)
  BY StepUsesCsemp, SameStep
<1> QED
  BY <1>1, <1>2, PTL DEF Spec, SempP!Spec

-----------------------------------------------------------------------------
\* What is known of the semaphore, for this use of it.
LEMMA SempTypes == SempP!Spec => []SempP!TypeOK
<1>1. SempP!CsempAssumption
  BY CpactiveAssumption DEF SempP!CsempAssumption, CpactiveAssumption
<1> QED
  BY <1>1, SempP!TypeCorrect, PTL

LEMMA SempLockInv == SempP!Spec => []SempP!LockInv
<1>1. SempP!CsempAssumption
  BY CpactiveAssumption DEF SempP!CsempAssumption, CpactiveAssumption
<1> QED
  BY <1>1, SempP!LockInvariant, PTL

\* Storing the pid of a record, or the fields after it, leaves a table.
LEMMA SetPid ==
  ASSUME NEW t \in [Slots -> Record], NEW s, NEW q \in Procs \cup {NoPid}
  PROVE  [t EXCEPT ![s].pid = q] \in [Slots -> Record]
BY DEF Record

LEMMA SetRest ==
  ASSUME NEW t \in [Slots -> Record], NEW s,
         NEW l \in {0, Timeout}, NEW d \in 0 .. Timeout
  PROVE  [t EXCEPT ![s].limit = l, ![s].due = d] \in [Slots -> Record]
<1> DEFINE u == [t EXCEPT ![s].limit = l]
<1>1. u \in [Slots -> Record]
  BY DEF Record
<1>2. [u EXCEPT ![s].due = d] \in [Slots -> Record]
  BY <1>1 DEF Record
<1> QED
  BY <1>2

LEMMA SetDue ==
  ASSUME NEW t \in [Slots -> Record], NEW s
  PROVE  [t EXCEPT ![s].due = t[s].limit] \in [Slots -> Record]
<1>1. CASE s \in Slots
  <2>1. t[s].limit \in 0 .. Timeout
    BY <1>1, CpactiveAssumption DEF Record, CpactiveAssumption
  <2> QED
    BY <2>1 DEF Record
<1>2. CASE s \notin Slots
  BY <1>2
<1> QED
  BY <1>1, <1>2

\* Every step keeps the types of the table and of the processes.
LEMMA TableTypeStep == TableTypeOK /\ [Next]_vars => TableTypeOK'
<1> SUFFICES ASSUME TableTypeOK, [Next]_vars PROVE TableTypeOK'
  OBVIOUS
<1> USE CpactiveAssumption DEF CpactiveAssumption, TableTypeOK, St, Slots,
        NoSlot, Move, At, Alive
<1>1. ASSUME NEW p \in Procs, Start(p) PROVE TableTypeOK'
  BY <1>1 DEF Start
<1>2. ASSUME NEW p \in Procs, ShmgetFails(p) PROVE TableTypeOK'
  BY <1>2 DEF ShmgetFails
<1>3. ASSUME NEW p \in Procs, Scan(p) PROVE TableTypeOK'
  <2>1. pos' \in [Procs -> Slots \cup {NoSlot}]
    BY <1>3 DEF Scan, Mine
  <2> QED
    BY <1>3, <2>1 DEF Scan
<1>4. ASSUME NEW p \in Procs, SempInit(p) PROVE TableTypeOK'
  BY <1>4 DEF SempInit
<1>5. ASSUME NEW p \in Procs, SempWait(p) PROVE TableTypeOK'
  BY <1>5 DEF SempWait
<1>6. ASSUME NEW p \in Procs, Search(p) PROVE TableTypeOK'
  <2>1. idx' \in [Procs -> Slots]
    <3>1. 1 \in Slots /\ idx[p] \in Slots /\ (~LastTurn(p) => idx[p] + 1 \in Slots)
      BY DEF LastTurn
    <3> QED
      BY <1>6, <3>1 DEF Search
  <2>2. pos' \in [Procs -> Slots \cup {NoSlot}]
    BY <1>6 DEF Search, Free, LastTurn
  <2> QED
    BY <1>6, <2>1, <2>2 DEF Search, Free, LastTurn
<1>7. ASSUME NEW p \in Procs, CopyPid(p) PROVE TableTypeOK'
  <2>1. table' \in [Slots -> Record]
    BY <1>7, SetPid DEF CopyPid
  <2> QED
    BY <1>7, <2>1 DEF CopyPid
<1>8. ASSUME NEW p \in Procs, CopyRest(p) PROVE TableTypeOK'
  <2>1. table' \in [Slots -> Record]
    BY <1>8, SetRest DEF CopyRest
  <2> QED
    BY <1>8, <2>1 DEF CopyRest
<1>9. ASSUME NEW p \in Procs, SempPost(p) PROVE TableTypeOK'
  BY <1>9 DEF SempPost
<1>10. ASSUME NEW p \in Procs, AddAgain(p) PROVE TableTypeOK'
  BY <1>10 DEF AddAgain
<1>11. ASSUME NEW p \in Procs, Uptatime(p) PROVE TableTypeOK'
  <2>1. table' \in [Slots -> Record]
    BY <1>11, SetDue DEF Uptatime
  <2> QED
    BY <1>11, <2>1 DEF Uptatime
<1>12. ASSUME NEW p \in Procs, Destruct(p) PROVE TableTypeOK'
  <2>1. table' \in [Slots -> Record]
    <3>1. [table EXCEPT ![pos[p]].pid = NoPid] \in [Slots -> Record]
      BY SetPid
    <3> QED
      BY <1>12, <3>1 DEF Destruct
  <2> QED
    BY <1>12, <2>1 DEF Destruct
<1>13. ASSUME NEW p \in Procs, DestructRest(p) PROVE TableTypeOK'
  <2>1. table' \in [Slots -> Record]
    <3>1. 0 \in {0, Timeout} /\ 0 \in 0 .. Timeout
      OBVIOUS
    <3> QED
      BY <1>13, <3>1, SetRest DEF DestructRest
  <2> QED
    BY <1>13, <2>1 DEF DestructRest
<1>14. ASSUME NEW p \in Procs, Die(p) PROVE TableTypeOK'
  BY <1>14 DEF Die
<1>15. CASE Tick
  <2>1. \A n \in 0 .. Timeout : Sub1(n) \in 0 .. Timeout
    BY DEF Sub1
  <2>2. \A s \in Slots : [table[s] EXCEPT !.due = Sub1(table[s].due)] \in Record
    BY <2>1 DEF Record
  <2>3. table' \in [Slots -> Record]
    BY <1>15, <2>2 DEF Tick
  <2>4. rest' \in [Procs -> 0 .. Timeout]
    BY <1>15, <2>1 DEF Tick
  <2> QED
    BY <1>15, <2>3, <2>4 DEF Tick
<1>16. CASE UNCHANGED vars
  BY <1>16 DEF vars
<1> QED
  BY <1>1, <1>2, <1>3, <1>4, <1>5, <1>6, <1>7, <1>8, <1>9, <1>10,
     <1>11, <1>12, <1>13, <1>14, <1>15, <1>16
  DEF Next, ProcStep

LEMMA TableTypeInit == Init => TableTypeOK
BY CpactiveAssumption
DEF Init, CpactiveAssumption, TableTypeOK, Record, Zeroed, St, Slots, NoSlot

LEMMA SempTypeSame == SempP!TypeOK => Semp!TypeOK
BY DEF SempP!TypeOK, Semp!TypeOK, SempP!PC, Semp!PC, SempP!NoSem

\* The heartbeat table and the processes keep their types.
THEOREM TypeCorrect == Spec => []TypeOK
<1>1. Spec => []TableTypeOK
  BY TableTypeInit, TableTypeStep, PTL DEF Spec
<1>2. Spec => []Semp!TypeOK
  BY SempTypeSame, SpecUsesP, SempTypes, PTL
<1> QED
  BY <1>1, <1>2, PTL DEF TypeOK

-----------------------------------------------------------------------------
\* No process is in the critical section without the semaphore.
LEMMA InLockStep ==
  ASSUME eintr' = 0, TypeOK, Semp!LockHeld, InLock, [Next]_vars
  PROVE  InLock'
<1> USE DEF TypeOK, TableTypeOK, Semp!TypeOK, InLock, Critical, At, Move, Alive,
        semVars, Semp!Construct, Semp!InitStep, Semp!InitGet,
        Semp!InitCreate, Semp!InitAgain, Semp!InitSetval, Semp!Wait, Semp!Takeable,
        Semp!WaitInterrupted, Semp!Post, Semp!Die, Semp!Goto, Semp!Valid,
        Semp!Exists, Semp!NoSem
<1>1. ASSUME NEW p \in Procs, Start(p) PROVE InLock'
  BY <1>1 DEF Start
<1>2. ASSUME NEW p \in Procs, ShmgetFails(p) PROVE InLock'
  BY <1>2 DEF ShmgetFails
<1>3. ASSUME NEW p \in Procs, Scan(p) PROVE InLock'
  BY <1>3 DEF Scan
<1>4. ASSUME NEW p \in Procs, SempInit(p) PROVE InLock'
  <2>1. pc[p] \in {"new", "create", "again", "setval"}
    BY <1>4 DEF SempInit
  <2>2. \A q \in Procs \ {p} : pc'[q] = pc[q] /\ semid'[q] = semid[q]
    BY <1>4 DEF SempInit
  <2>3. pc'[p] = "hold" => FALSE
    BY <1>4, <2>1 DEF SempInit
  <2>4. kern'.id = kern.id \/ kern.id = Semp!NoSem
    BY <1>4 DEF SempInit
  <2>5. \A q \in Procs \ {p} : pc[q] \in {"setval", "ready", "hold"} => Semp!Valid(q)'
    BY <2>2, <2>4
  <2>6. pc'[p] \in {"setval", "ready"} => Semp!Valid(p)'
    <3>1. CASE Semp!InitGet(p)
      BY <3>1
    <3>2. CASE Semp!InitCreate(p)
      <4>1. last + 1 # 0
        OBVIOUS
      <4>2. pc'[p] = "setval" => /\ kern' = [id |-> last + 1, val |-> 0, init |-> FALSE]
                                /\ semid' = [semid EXCEPT ![p] = last + 1]
        BY <3>2
      <4>3. pc'[p] # "ready"
        BY <3>2
      <4> QED
        BY <4>1, <4>2, <4>3
    <3>3. CASE Semp!InitAgain(p)
      BY <3>3
    <3>4. CASE Semp!InitSetval(p)
      BY <3>4
    <3> QED
      BY <1>4, <3>1, <3>2, <3>3, <3>4 DEF SempInit
  <2>7. st'[p] = IF pc'[p] = "ready" THEN "wait"
                 ELSE IF pc'[p] = "failed" THEN "failed" ELSE "init"
    BY <1>4 DEF SempInit
  <2>8. \A q \in Procs \ {p} : st'[q] = st[q]
    BY <1>4 DEF SempInit
  <2>9. ASSUME NEW q \in Procs \ {p}
        PROVE  /\ st'[q] = "wait" => pc'[q] = "ready"
               /\ q \in Critical' => pc'[q] = "hold"
               /\ pc'[q] \in {"setval", "ready", "hold"} => Semp!Valid(q)'
    BY <2>2, <2>5, <2>8
  <2>10. /\ st'[p] = "wait" => pc'[p] = "ready"
         /\ p \in Critical' => pc'[p] = "hold"
         /\ pc'[p] \in {"setval", "ready", "hold"} => Semp!Valid(p)'
    BY <2>3, <2>6, <2>7
  <2> QED
    BY <2>9, <2>10
<1>5. ASSUME NEW p \in Procs, SempWait(p) PROVE InLock'
  <2>1. pc[p] = "ready" /\ Semp!Valid(p)
    BY <1>5 DEF SempWait
  <2>2. adj[p] = 0
    BY <2>1 DEF Semp!LockHeld, Semp!Adjusted, Semp!Holders
  <2>3. pc' = [pc EXCEPT ![p] = "hold"]
    BY <1>5, <2>1, <2>2, CpactiveAssumption DEF SempWait, CpactiveAssumption
  <2>4. kern'.id = kern.id /\ semid' = semid
    BY <1>5, <2>1 DEF SempWait
  <2> QED
    BY <1>5, <2>3, <2>4 DEF SempWait
<1>6. ASSUME NEW p \in Procs, Search(p) PROVE InLock'
  BY <1>6 DEF Search, Free, LastTurn
<1>7. ASSUME NEW p \in Procs, CopyPid(p) PROVE InLock'
  BY <1>7 DEF CopyPid
<1>8. ASSUME NEW p \in Procs, CopyRest(p) PROVE InLock'
  BY <1>8 DEF CopyRest
<1>9. ASSUME NEW p \in Procs, SempPost(p) PROVE InLock'
  BY <1>9 DEF SempPost
<1>10. ASSUME NEW p \in Procs, AddAgain(p) PROVE InLock'
  BY <1>10 DEF AddAgain
<1>11. ASSUME NEW p \in Procs, Uptatime(p) PROVE InLock'
  BY <1>11 DEF Uptatime
<1>12. ASSUME NEW p \in Procs, Destruct(p) PROVE InLock'
  BY <1>12 DEF Destruct
<1>13. ASSUME NEW p \in Procs, DestructRest(p) PROVE InLock'
  BY <1>13 DEF DestructRest
<1>14. ASSUME NEW p \in Procs, Die(p) PROVE InLock'
  BY <1>14 DEF Die
<1>15. CASE Tick
  BY <1>15 DEF Tick
<1>16. CASE UNCHANGED vars
  BY <1>16 DEF vars
<1> QED
  BY <1>1, <1>2, <1>3, <1>4, <1>5, <1>6, <1>7, <1>8, <1>9, <1>10,
     <1>11, <1>12, <1>13, <1>14, <1>15, <1>16
  DEF Next, ProcStep

\* m_pos is set from the time a slot is chosen until the process ends.
LEMMA PosSetStep ==
  ASSUME TypeOK, PosSet, [Next]_vars
  PROVE  PosSet'
<1> USE DEF TypeOK, TableTypeOK, PosSet, At, Move, Alive, NoSlot, Slots, Mine
<1>1. ASSUME NEW p \in Procs, Start(p) PROVE PosSet'
  BY <1>1 DEF Start
<1>2. ASSUME NEW p \in Procs, ShmgetFails(p) PROVE PosSet'
  BY <1>2 DEF ShmgetFails
<1>3. ASSUME NEW p \in Procs, Scan(p) PROVE PosSet'
  BY <1>3 DEF Scan
<1>4. ASSUME NEW p \in Procs, SempInit(p) PROVE PosSet'
  BY <1>4 DEF SempInit
<1>5. ASSUME NEW p \in Procs, SempWait(p) PROVE PosSet'
  BY <1>5 DEF SempWait
<1>6. ASSUME NEW p \in Procs, Search(p) PROVE PosSet'
  BY <1>6 DEF Search, Free, LastTurn
<1>7. ASSUME NEW p \in Procs, CopyPid(p) PROVE PosSet'
  BY <1>7 DEF CopyPid
<1>8. ASSUME NEW p \in Procs, CopyRest(p) PROVE PosSet'
  BY <1>8 DEF CopyRest
<1>9. ASSUME NEW p \in Procs, SempPost(p) PROVE PosSet'
  BY <1>9 DEF SempPost
<1>10. ASSUME NEW p \in Procs, AddAgain(p) PROVE PosSet'
  BY <1>10 DEF AddAgain
<1>11. ASSUME NEW p \in Procs, Uptatime(p) PROVE PosSet'
  BY <1>11 DEF Uptatime
<1>12. ASSUME NEW p \in Procs, Destruct(p) PROVE PosSet'
  BY <1>12 DEF Destruct
<1>13. ASSUME NEW p \in Procs, DestructRest(p) PROVE PosSet'
  BY <1>13 DEF DestructRest
<1>14. ASSUME NEW p \in Procs, Die(p) PROVE PosSet'
  BY <1>14 DEF Die
<1>15. CASE Tick
  BY <1>15 DEF Tick
<1>16. CASE UNCHANGED vars
  BY <1>16 DEF vars
<1> QED
  BY <1>1, <1>2, <1>3, <1>4, <1>5, <1>6, <1>7, <1>8, <1>9, <1>10,
     <1>11, <1>12, <1>13, <1>14, <1>15, <1>16
  DEF Next, ProcStep

\* The semaphore gives the critical section to one process.
LEMMA OneInLock ==
  ASSUME Semp!LockHeld, InLock PROVE \A p, q \in Critical : p = q
<1>1. \A p \in Critical : p \in Semp!Holders
  BY DEF InLock, Critical, Semp!Holders
<1> QED
  BY <1>1 DEF Semp!LockHeld, Semp!ValueCounts

\* Which actions change which pids of the table.
LEMMA PidKept ==
  ASSUME TypeOK, NEW p \in Procs,
         CopyRest(p) \/ Uptatime(p) \/ DestructRest(p) \/ Tick
  PROVE  \A s \in Slots : table'[s].pid = table[s].pid
<1> USE DEF TypeOK, TableTypeOK, Record
<1>1. CASE CopyRest(p)
  BY <1>1 DEF CopyRest
<1>2. CASE Uptatime(p)
  BY <1>2 DEF Uptatime
<1>3. CASE DestructRest(p)
  BY <1>3 DEF DestructRest
<1>4. CASE Tick
  BY <1>4 DEF Tick
<1> QED
  BY <1>1, <1>2, <1>3, <1>4

LEMMA PidSet ==
  ASSUME TypeOK, NEW p \in Procs, NEW s \in Slots
  PROVE  /\ CopyPid(p) =>
              table'[s].pid = IF s = pos[p] THEN p ELSE table[s].pid
         /\ Destruct(p) =>
              table'[s].pid = IF s = pos[p] THEN NoPid ELSE table[s].pid
<1> USE DEF TypeOK, TableTypeOK, Record
<1>1. CopyPid(p) => table'[s].pid = IF s = pos[p] THEN p ELSE table[s].pid
  BY DEF CopyPid
<1>2. ASSUME Destruct(p), pos[p] = NoSlot
      PROVE  table'[s].pid = IF s = pos[p] THEN NoPid ELSE table[s].pid
  <2>1. s # pos[p] /\ table' = table
    BY <1>2 DEF Destruct, Slots, NoSlot
  <2> QED
    BY <2>1
<1>3. ASSUME Destruct(p), pos[p] # NoSlot
      PROVE  table'[s].pid = IF s = pos[p] THEN NoPid ELSE table[s].pid
  <2>1. table' = [table EXCEPT ![pos[p]].pid = NoPid]
    BY <1>3 DEF Destruct
  <2> QED
    BY <2>1
<1> QED
  BY <1>1, <1>2, <1>3

\* A slot keeps the pid of its owner.
LEMMA ClaimedStep ==
  ASSUME TypeOK, \A p, q \in Critical : p = q, PosSet, PosSet', Claimed,
         [Next]_vars
  PROVE  Claimed'
<1>a. \A p \in Procs : \A s \in Slots :
        /\ CopyPid(p) =>
             table'[s].pid = IF s = pos[p] THEN p ELSE table[s].pid
        /\ Destruct(p) =>
             table'[s].pid = IF s = pos[p] THEN NoPid ELSE table[s].pid
  BY PidSet
<1>b. \A p \in Procs : CopyRest(p) \/ Uptatime(p) \/ DestructRest(p) \/ Tick =>
        \A s \in Slots : table'[s].pid = table[s].pid
  BY PidKept
<1> USE CpactiveAssumption
    DEF TypeOK, TableTypeOK, Critical, PosSet, Claimed, Owns, At,
        Move, Alive, NoSlot, Slots, Record, CpactiveAssumption
<1>1. ASSUME NEW p \in Procs, Start(p) PROVE Claimed'
  BY <1>1 DEF Start
<1>2. ASSUME NEW p \in Procs, ShmgetFails(p) PROVE Claimed'
  BY <1>2 DEF ShmgetFails
<1>3. ASSUME NEW p \in Procs, Scan(p) PROVE Claimed'
  <2>1. /\ table' = table
        /\ \A q \in Procs \ {p} : st'[q] = st[q] /\ pos'[q] = pos[q]
    BY <1>3 DEF Scan
  <2>2. pos'[p] # NoSlot => table[pos'[p]].pid = p
    BY <1>3 DEF Scan, Mine
  <2> SUFFICES ASSUME NEW q \in Procs, NEW s \in Slots, Owns(q, s)'
               PROVE  table'[s].pid = q \/ (st'[q] = "copy" /\ table'[s].pid = NoPid)
    OBVIOUS
  <2>3. CASE q = p
    BY <2>1, <2>2, <2>3
  <2>4. CASE q # p
    BY <2>1, <2>4
  <2> QED
    BY <2>3, <2>4
<1>4. ASSUME NEW p \in Procs, SempInit(p) PROVE Claimed'
  BY <1>4 DEF SempInit
<1>5. ASSUME NEW p \in Procs, SempWait(p) PROVE Claimed'
  BY <1>5 DEF SempWait
<1>6. ASSUME NEW p \in Procs, Search(p) PROVE Claimed'
  BY <1>6, SMTT(20) DEF Search, Free, LastTurn
<1>7. ASSUME NEW p \in Procs, CopyPid(p) PROVE Claimed'
  <2> SUFFICES ASSUME NEW q \in Procs, NEW s \in Slots, Owns(q, s)'
               PROVE  table'[s].pid = q \/ (st'[q] = "copy" /\ table'[s].pid = NoPid)
    OBVIOUS
  <2>1. table'[s].pid = IF s = pos[p] THEN p ELSE table[s].pid
    BY <1>7, <1>a
  <2>2. /\ st[p] = "copy" /\ pos' = pos /\ pos[p] \in Slots
        /\ st' = [st EXCEPT ![p] = "copied"]
    BY <1>7 DEF CopyPid
  <2>3. table[pos[p]].pid \in {p, NoPid}
    BY <2>2
  <2>4. CASE q = p
    BY <2>1, <2>2, <2>4
  <2>5. CASE q # p
    <3>1. Owns(q, s) /\ st'[q] = st[q] /\ st[q] # "copy"
      BY <2>2, <2>5
    <3>2. table[s].pid = q
      BY <3>1
    <3>3. s # pos[p]
      BY <3>2, <2>3, <2>5
    <3> QED
      BY <2>1, <3>2, <3>3
  <2> QED
    BY <2>4, <2>5
<1>8. ASSUME NEW p \in Procs, CopyRest(p) PROVE Claimed'
  <2>1. \A s \in Slots : table'[s].pid = table[s].pid
    BY <1>8, <1>b
  <2>2. st[p] = "copied" /\ pos' = pos /\ st' = [st EXCEPT ![p] = "post"]
    BY <1>8 DEF CopyRest
  <2> SUFFICES ASSUME NEW q \in Procs, NEW s \in Slots, Owns(q, s)'
               PROVE  table'[s].pid = q \/ (st'[q] = "copy" /\ table'[s].pid = NoPid)
    OBVIOUS
  <2>3. Owns(q, s) /\ (st'[q] = "copy" <=> st[q] = "copy")
    BY <2>2
  <2> QED
    BY <2>1, <2>3
<1>9. ASSUME NEW p \in Procs, SempPost(p) PROVE Claimed'
  BY <1>9 DEF SempPost
<1>10. ASSUME NEW p \in Procs, AddAgain(p) PROVE Claimed'
  BY <1>10 DEF AddAgain
<1>11. ASSUME NEW p \in Procs, Uptatime(p) PROVE Claimed'
  <2>1. \A s \in Slots : table'[s].pid = table[s].pid
    BY <1>11, <1>b
  <2> SUFFICES ASSUME NEW q \in Procs, NEW s \in Slots, Owns(q, s)'
               PROVE  table'[s].pid = q \/ (st'[q] = "copy" /\ table'[s].pid = NoPid)
    OBVIOUS
  <2>2. Owns(q, s) /\ st'[q] = st[q]
    BY <1>11 DEF Uptatime
  <2> QED
    BY <2>1, <2>2
<1>12. ASSUME NEW p \in Procs, Destruct(p) PROVE Claimed'
  <2> SUFFICES ASSUME NEW q \in Procs, NEW s \in Slots, Owns(q, s)'
               PROVE  table'[s].pid = q \/ (st'[q] = "copy" /\ table'[s].pid = NoPid)
    OBVIOUS
  <2>1. table'[s].pid = IF s = pos[p] THEN NoPid ELSE table[s].pid
    BY <1>12, <1>a
  <2>2. pos' = pos /\ \E l \in {"exit", "wipe"} : st' = [st EXCEPT ![p] = l]
    BY <1>12 DEF Destruct
  <2>3. q # p /\ st'[q] = st[q] /\ Owns(q, s)
    BY <2>2
  <2>4. table[s].pid = q \/ (st[q] = "copy" /\ table[s].pid = NoPid)
    BY <2>3
  <2>5. CASE s # pos[p]
    BY <2>1, <2>3, <2>4, <2>5
  <2>6. CASE s = pos[p]
    <3>1. Owns(p, s)
      BY <1>12, <2>6 DEF Destruct
    <3>2. table[s].pid = p \/ (st[p] = "copy" /\ table[s].pid = NoPid)
      BY <3>1
    <3>3. st[q] = "copy"
      BY <2>3, <2>4, <3>2
    <3> QED
      BY <2>1, <2>3, <2>6, <3>3
  <2> QED
    BY <2>5, <2>6
<1>13. ASSUME NEW p \in Procs, DestructRest(p) PROVE Claimed'
  <2>1. \A s \in Slots : table'[s].pid = table[s].pid
    BY <1>13, <1>b
  <2>2. pos' = pos /\ st' = [st EXCEPT ![p] = "exit"]
    BY <1>13 DEF DestructRest
  <2> SUFFICES ASSUME NEW q \in Procs, NEW s \in Slots, Owns(q, s)'
               PROVE  table'[s].pid = q \/ (st'[q] = "copy" /\ table'[s].pid = NoPid)
    OBVIOUS
  <2>3. Owns(q, s) /\ st'[q] = st[q]
    BY <2>2
  <2> QED
    BY <2>1, <2>3
<1>14. ASSUME NEW p \in Procs, Die(p) PROVE Claimed'
  BY <1>14 DEF Die
<1>15. CASE Tick
  <2>1. \A s \in Slots : table'[s].pid = table[s].pid
    BY <1>15 DEF Tick
  <2> SUFFICES ASSUME NEW q \in Procs, NEW s \in Slots, Owns(q, s)'
               PROVE  table'[s].pid = q \/ (st'[q] = "copy" /\ table'[s].pid = NoPid)
    OBVIOUS
  <2>2. Owns(q, s) /\ st'[q] = st[q]
    BY <1>15 DEF Tick
  <2> QED
    BY <2>1, <2>2
<1>16. CASE UNCHANGED vars
  BY <1>16 DEF vars
<1> QED
  BY <1>1, <1>2, <1>3, <1>4, <1>5, <1>6, <1>7, <1>8, <1>9, <1>10,
     <1>11, <1>12, <1>13, <1>14, <1>15, <1>16
  DEF Next, ProcStep

\* The records under one pid are one record.
LEMMA SingleStep ==
  ASSUME TypeOK, PosSet, Single, OneRecord, [Next]_vars
  PROVE  Single' /\ OneRecord'
<1>a. \A p \in Procs : \A s \in Slots :
        /\ CopyPid(p) =>
             table'[s].pid = IF s = pos[p] THEN p ELSE table[s].pid
        /\ Destruct(p) =>
             table'[s].pid = IF s = pos[p] THEN NoPid ELSE table[s].pid
  BY PidSet
<1>b. \A p \in Procs : CopyRest(p) \/ Uptatime(p) \/ DestructRest(p) \/ Tick =>
        \A s \in Slots : table'[s].pid = table[s].pid
  BY PidKept
<1> USE CpactiveAssumption
    DEF TypeOK, TableTypeOK, PosSet, Single, Scanned, OneRecord, At,
        Move, Alive, NoSlot, Slots, Record, CpactiveAssumption
<1>1. ASSUME NEW p \in Procs, Start(p) PROVE Single' /\ OneRecord'
  BY <1>1 DEF Start
<1>2. ASSUME NEW p \in Procs, ShmgetFails(p) PROVE Single' /\ OneRecord'
  BY <1>2 DEF ShmgetFails
<1>3. ASSUME NEW p \in Procs, Scan(p) PROVE Single' /\ OneRecord'
  <2>1. /\ table' = table
        /\ \A q \in Procs \ {p} : st'[q] = st[q] /\ pos'[q] = pos[q]
    BY <1>3 DEF Scan
  <2>2. \A s \in Slots : table[s].pid = p => pos'[p] = s
    BY <1>3, ZenonT(40) DEF Scan, Mine
  <2>3. Single'
    BY <2>1, <2>2
  <2> QED
    BY <2>1, <2>3
<1>4. ASSUME NEW p \in Procs, SempInit(p) PROVE Single' /\ OneRecord'
  BY <1>4 DEF SempInit
<1>5. ASSUME NEW p \in Procs, SempWait(p) PROVE Single' /\ OneRecord'
  BY <1>5 DEF SempWait
<1>6. ASSUME NEW p \in Procs, Search(p) PROVE Single' /\ OneRecord'
  BY <1>6, SMTT(20) DEF Search, Free, LastTurn
<1>7. ASSUME NEW p \in Procs, CopyPid(p) PROVE Single' /\ OneRecord'
  <2>1. \A s \in Slots : table'[s].pid = IF s = pos[p] THEN p ELSE table[s].pid
    BY <1>7, <1>a
  <2>2. /\ st[p] = "copy" /\ pos' = pos
        /\ st' = [st EXCEPT ![p] = "copied"]
    BY <1>7 DEF CopyPid
  <2>3. Single'
    <3> SUFFICES ASSUME NEW q \in Procs, NEW s \in Slots, Scanned(q)',
                        table'[s].pid = q
                 PROVE  pos'[q] = s
      OBVIOUS
    <3>1. CASE q = p /\ s = pos[p]
      BY <2>2, <3>1
    <3>2. CASE q = p /\ s # pos[p]
      BY <2>1, <2>2, <3>2
    <3>3. CASE q # p
      <4>1. table[s].pid = q
        BY <2>1, <3>3
      <4>2. Scanned(q)
        BY <2>2, <3>3
      <4> QED
        BY <2>2, <4>1, <4>2
    <3> QED
      BY <3>1, <3>2, <3>3
  <2>4. OneRecord'
    BY <2>1, <2>2
  <2> QED
    BY <2>3, <2>4
<1>8. ASSUME NEW p \in Procs, CopyRest(p) PROVE Single' /\ OneRecord'
  <2>1. \A s \in Slots : table'[s].pid = table[s].pid
    BY <1>8, <1>b
  <2>2. st[p] = "copied" /\ pos' = pos /\ st' = [st EXCEPT ![p] = "post"]
    BY <1>8 DEF CopyRest
  <2> QED
    BY <2>1, <2>2
<1>9. ASSUME NEW p \in Procs, SempPost(p) PROVE Single' /\ OneRecord'
  BY <1>9 DEF SempPost
<1>10. ASSUME NEW p \in Procs, AddAgain(p) PROVE Single' /\ OneRecord'
  BY <1>10 DEF AddAgain
<1>11. ASSUME NEW p \in Procs, Uptatime(p) PROVE Single' /\ OneRecord'
  <2>1. \A s \in Slots : table'[s].pid = table[s].pid
    BY <1>11, <1>b
  <2> QED
    BY <1>11, <2>1 DEF Uptatime
<1>12. ASSUME NEW p \in Procs, Destruct(p) PROVE Single' /\ OneRecord'
  <2>1. \A s \in Slots : table'[s].pid = IF s = pos[p] THEN NoPid ELSE table[s].pid
    BY <1>12, <1>a
  <2>2. pos' = pos /\ st[p] \notin {"none", "wipe", "exit"}
    BY <1>12 DEF Destruct
  <2>3. st' = [st EXCEPT ![p] = IF pos[p] = NoSlot THEN "exit" ELSE "wipe"]
    BY <1>12 DEF Destruct
  <2>4. OneRecord'
    BY <2>1
  <2>5. ASSUME NEW q \in Procs, NEW s \in Slots, Scanned(q)', table'[s].pid = q
        PROVE  pos'[q] = s
    <3>1. table[s].pid = q /\ s # pos[p]
      BY <2>1, <2>5
    <3>2. CASE q = p
      <4>1. pos[p] # NoSlot
        BY <2>2, <2>3, <2>5, <3>2
      <4> QED
        BY <2>2, <3>1, <3>2, <4>1 DEF St
    <3>3. CASE q # p
      BY <2>2, <2>3, <2>5, <3>1, <3>3
    <3> QED
      BY <3>2, <3>3
  <2> QED
    BY <2>4, <2>5
<1>13. ASSUME NEW p \in Procs, DestructRest(p) PROVE Single' /\ OneRecord'
  <2>1. \A s \in Slots : table'[s].pid = table[s].pid
    BY <1>13, <1>b
  <2>2. st[p] = "wipe" /\ pos' = pos /\ st' = [st EXCEPT ![p] = "exit"]
    BY <1>13 DEF DestructRest
  <2> QED
    BY <2>1, <2>2
<1>14. ASSUME NEW p \in Procs, Die(p) PROVE Single' /\ OneRecord'
  BY <1>14 DEF Die
<1>15. CASE Tick
  <2>1. \A s \in Slots : table'[s].pid = table[s].pid
    BY <1>15 DEF Tick
  <2> QED
    BY <1>15, <2>1 DEF Tick
<1>16. CASE UNCHANGED vars
  BY <1>16 DEF vars
<1> QED
  BY <1>1, <1>2, <1>3, <1>4, <1>5, <1>6, <1>7, <1>8, <1>9, <1>10,
     <1>11, <1>12, <1>13, <1>14, <1>15, <1>16
  DEF Next, ProcStep

-----------------------------------------------------------------------------
\* Nothing makes an interruption forgotten.
LEMMA InterruptedStays == TypeOK /\ eintr # 0 /\ [Next]_vars => eintr' # 0
<1> SUFFICES ASSUME TypeOK, eintr # 0, [Semp!Next]_(Semp!vars) PROVE eintr' # 0
  BY StepUsesCsemp
<1> QED
  BY CpactiveAssumption DEF CpactiveAssumption, TypeOK, Semp!TypeOK, Semp!Next,
     Semp!vars, Semp!Construct, Semp!InitGet, Semp!InitCreate,
     Semp!InitAgain, Semp!InitSetval, Semp!Wait, Semp!WaitInterrupted, Semp!Post,
     Semp!Destroy, Semp!Die

LEMMA SempHeldSame == SempP!LockInv => SempHeld
BY DEF SempHeld, SempP!LockInv, Semp!LockHeld, SempP!LockHeld, Semp!TypeOK, SempP!TypeOK,
   Semp!PC, SempP!PC, Semp!NoSem, SempP!NoSem, Semp!IdsFresh, SempP!IdsFresh,
   Semp!OneCreator, SempP!OneCreator, Semp!Creating, SempP!Creating,
   Semp!Adjusted, SempP!Adjusted, Semp!Holders, SempP!Holders,
   Semp!ValueCounts, SempP!ValueCounts, Semp!Valid, SempP!Valid,
   Semp!Exists, SempP!Exists

\* The inductive invariant of the table.
THEOREM TableInvariant == Spec => []TableInv
<1>1. SempP!LockInv => SempHeld
  BY SempHeldSame
<1>2. Spec => []SempHeld
  BY <1>1, SpecUsesP, SempLockInv, PTL
<1>3. Init => PosSet /\ OwnersHeld
  BY DEF Init, OwnersHeld, InLock, PosSet, Claimed, Owns, Critical, NoSlot, Semp!Init
<1>4. TypeOK /\ PosSet /\ SempHeld /\ OwnersHeld /\ [Next]_vars
        => PosSet' /\ OwnersHeld'
  <2> SUFFICES ASSUME TypeOK, PosSet, SempHeld, OwnersHeld, [Next]_vars
               PROVE  PosSet' /\ OwnersHeld'
    OBVIOUS
  <2>1. PosSet'
    BY PosSetStep
  <2>2. ASSUME eintr' = 0 PROVE InLock' /\ Claimed'
    <3>1. Semp!LockHeld /\ InLock /\ Claimed
      BY <2>2, InterruptedStays DEF SempHeld, OwnersHeld
    <3>2. InLock'
      BY <2>2, <3>1, InLockStep
    <3>3. \A p, q \in Critical : p = q
      BY <3>1, OneInLock
    <3>4. Claimed'
      BY <2>1, <3>1, <3>3, ClaimedStep
    <3> QED
      BY <3>2, <3>4
  <2> QED
    BY <2>1, <2>2 DEF OwnersHeld
<1> QED
  BY <1>2, <1>3, <1>4, TypeCorrect, PTL DEF Spec, TableInv

\* For as long as no wait() has been interrupted: two processes are never in the
\* locked part of addpinfo, no two processes own one slot, and a registered
\* process keeps its record until its destructor.
THEOREM TableSafe == Spec => [](TableLocked /\ OneOwner /\ RecordKept)
<1>1. TableInv => TableLocked
  BY OneInLock DEF TableInv, TableLocked, SempHeld, OwnersHeld
<1>2. TableInv => OneOwner
  <2> SUFFICES ASSUME TableInv, eintr = 0, NEW p \in Procs, NEW q \in Procs,
                      NEW s \in Slots, Owns(p, s), Owns(q, s)
               PROVE  p = q
    BY DEF OneOwner
  <2>1. /\ table[s].pid = p \/ (st[p] = "copy" /\ table[s].pid = NoPid)
        /\ table[s].pid = q \/ (st[q] = "copy" /\ table[s].pid = NoPid)
    BY DEF TableInv, OwnersHeld, Claimed
  <2>2. st[p] = "copy" /\ st[q] = "copy" => p = q
    BY <1>1 DEF TableLocked, Critical
  <2> QED
    BY <2>1, <2>2, CpactiveAssumption DEF CpactiveAssumption
<1>3. TableInv => RecordKept
  <2> SUFFICES ASSUME TableInv, eintr = 0, NEW p \in Procs, At(p, "run")
               PROVE  table[pos[p]].pid = p
    BY DEF RecordKept
  <2>1. pos[p] \in Slots /\ pos[p] # NoSlot
    BY DEF TableInv, PosSet, At, TypeOK, TableTypeOK
  <2>2. Owns(p, pos[p])
    BY <2>1 DEF Owns, At
  <2> QED
    BY <2>1, <2>2 DEF TableInv, OwnersHeld, Claimed, At
<1> QED
  BY <1>1, <1>2, <1>3, TableInvariant, PTL

\* A pid never has two records, whatever dies and restarts and whoever is let
\* past the semaphore by a signal.
THEOREM OneRecordAlways == Spec => []OneRecord
<1>1. Init => PosSet /\ Single /\ OneRecord
  BY CpactiveAssumption
  DEF CpactiveAssumption, Init, PosSet, Single, OneRecord, Scanned, NoSlot, Zeroed
<1>2. TypeOK /\ PosSet /\ Single /\ OneRecord /\ [Next]_vars
        => PosSet' /\ Single' /\ OneRecord'
  BY PosSetStep, SingleStep
<1> QED
  BY <1>1, <1>2, TypeCorrect, PTL DEF Spec

-----------------------------------------------------------------------------
\* The guard daemon.  A step of it is a death of Cpactive, or it changes nothing
\* but the table, in which pids only vanish.
Erasing ==
  /\ UNCHANGED tableVars
  /\ \A s \in Slots : table'[s].pid \in {table[s].pid, NoPid}

LEMMA NextSlotTypes ==
  ASSUME DaemonTypeOK, NextSlot
  PROVE  di' \in Slots /\ dj' \in 0 .. Polls /\ dpc' \in {"idle", "look"}
BY CpactiveAssumption, CheckprocAssumption
DEF CpactiveAssumption, CheckprocAssumption, DaemonTypeOK, NextSlot, Slots

LEMMA DaemonStep ==
  ASSUME TableTypeOK, DaemonTypeOK, [CNext]_allVars
  PROVE  TableTypeOK' /\ DaemonTypeOK' /\ ([Next]_vars \/ Erasing)
<1> USE CpactiveAssumption, CheckprocAssumption DEF CpactiveAssumption, CheckprocAssumption
<1>s. ASSUME [Next]_vars, DaemonTypeOK'
      PROVE  TableTypeOK' /\ DaemonTypeOK' /\ ([Next]_vars \/ Erasing)
  BY <1>s, TableTypeStep
<1>1. CASE Next /\ UNCHANGED dVars
  BY <1>1, <1>s DEF dVars, DaemonTypeOK
<1>2. CASE UNCHANGED allVars
  BY <1>2, <1>s DEF allVars, DaemonTypeOK, vars
<1>3. CASE Run \/ Look \/ Probe \/ Age \/ Term \/ Poll
  <2>1. UNCHANGED vars
    BY <1>3 DEF Run, Look, Probe, Age, Term, Poll
  <2>2. CASE Run \/ Probe \/ Term
    BY <2>1, <2>2, <1>s DEF Run, Probe, Term, DaemonTypeOK
  <2>3. CASE Look
    BY <2>1, <2>3, <1>s, NextSlotTypes DEF Look, DaemonTypeOK
  <2>4. CASE Age
    BY <2>1, <2>4, <1>s, NextSlotTypes DEF Age, DaemonTypeOK
  <2>5. CASE Poll
    BY <2>1, <2>5, <1>s DEF Poll, DaemonTypeOK
  <2> QED
    BY <1>3, <2>2, <2>3, <2>4, <2>5
<1>4. CASE Erase
  <2>1. table' = [table EXCEPT ![di].pid = NoPid] /\ UNCHANGED tableVars /\ di \in Slots
    BY <1>4 DEF Erase, DaemonTypeOK
  <2>2. table' \in [Slots -> Record]
    BY <2>1, SetPid DEF TableTypeOK
  <2>3. \A s \in Slots : table'[s].pid \in {table[s].pid, NoPid}
    BY <2>1 DEF TableTypeOK, Record
  <2>4. DaemonTypeOK'
    BY <1>4 DEF Erase, DaemonTypeOK
  <2> QED
    BY <2>1, <2>2, <2>3, <2>4 DEF Erasing, TableTypeOK, tableVars
<1>5. CASE EraseRest
  <2>1. /\ table' = [table EXCEPT ![di].limit = 0, ![di].due = 0]
        /\ UNCHANGED tableVars /\ di \in Slots
    BY <1>5 DEF EraseRest, DaemonTypeOK
  <2>2. table' \in [Slots -> Record]
    <3>1. 0 \in {0, Timeout} /\ 0 \in 0 .. Timeout
      OBVIOUS
    <3>2. table \in [Slots -> Record]
      BY DEF TableTypeOK
    <3> QED
      BY <2>1, <3>1, <3>2, SetRest
  <2>3. \A s \in Slots : table'[s].pid = table[s].pid
    BY <2>1 DEF TableTypeOK, Record
  <2>4. DaemonTypeOK'
    BY <1>5, NextSlotTypes DEF EraseRest, DaemonTypeOK
  <2> QED
    BY <2>1, <2>2, <2>3, <2>4 DEF Erasing, TableTypeOK, tableVars
<1>6. CASE Kill
  <2>1. DaemonTypeOK'
    BY <1>6 DEF Kill, DaemonTypeOK
  <2>2. [Next]_vars
    <3>1. Here \in Procs \cup {NoPid}
      BY DEF Here, TableTypeOK, DaemonTypeOK, Record
    <3>2. Die(Here) /\ Here # NoPid => Next
      BY <3>1 DEF Next, ProcStep
    <3> QED
      BY <3>2, <1>6 DEF Kill
  <2> QED
    BY <2>1, <2>2, <1>s
<1> QED
  BY <1>1, <1>2, <1>3, <1>4, <1>5, <1>6 DEF CNext, Daemon

\* The daemon included, the semaphore is used as Csemp describes.
LEMMA CSpecTypes == CSpec => [](TableTypeOK /\ DaemonTypeOK)
<1>1. CInit => TableTypeOK /\ DaemonTypeOK
  BY TableTypeInit, CpactiveAssumption, CheckprocAssumption
  DEF CInit, DaemonTypeOK, Slots, CpactiveAssumption, CheckprocAssumption
<1>2. TableTypeOK /\ DaemonTypeOK /\ [CNext]_allVars => TableTypeOK' /\ DaemonTypeOK'
  BY DaemonStep
<1> QED
  BY <1>1, <1>2, PTL DEF CSpec

LEMMA DaemonUsesCsemp ==
  TableTypeOK /\ DaemonTypeOK /\ [CNext]_allVars => [SempP!Next]_(SempP!vars)
<1> SUFFICES ASSUME TableTypeOK, DaemonTypeOK, [CNext]_allVars
             PROVE  [SempP!Next]_(SempP!vars)
  OBVIOUS
<1>1. CASE [Next]_vars
  BY <1>1, StepUsesCsemp, SameStep
<1>2. CASE Erasing
  BY <1>2 DEF Erasing, tableVars, semVars, SempP!vars
<1> QED
  BY <1>1, <1>2, DaemonStep

LEMMA CSpecUsesP == CSpec => SempP!Spec
<1>1. CInit => SempP!Init
  BY SameInit DEF CInit, Init
<1> QED
  BY <1>1, CSpecTypes, DaemonUsesCsemp, PTL DEF CSpec, SempP!Spec

\* What the daemon leaves: not Claimed, for a slot can lose its pid at any time, but
\* the lock and the scan.
GuardInv ==
  /\ TypeOK /\ DaemonTypeOK /\ PosSet /\ SempHeld
  /\ eintr = 0 => InLock
  /\ Single /\ OneRecord

\* The daemon and the services keep GuardInv for any number of processes and slots,
\* whatever dies, is killed, restarts or is erased.
THEOREM GuardInvariant == CSpec => []GuardInv
<1> DEFINE I == PosSet /\ (eintr = 0 => InLock) /\ Single /\ OneRecord
<1>1. CSpec => [](TypeOK /\ DaemonTypeOK /\ SempHeld)
  BY CSpecTypes, CSpecUsesP, SempTypes, SempLockInv, SempTypeSame, SempHeldSame, PTL DEF TypeOK
<1>2. CInit => I
  BY CpactiveAssumption
  DEF CInit, CpactiveAssumption, Init, PosSet, Single, OneRecord, Scanned, NoSlot, Zeroed,
      InLock, Critical, Semp!Init
<1>3. TypeOK /\ DaemonTypeOK /\ SempHeld /\ I /\ [CNext]_allVars => I'
  <2> SUFFICES ASSUME TypeOK, DaemonTypeOK, SempHeld, I, [CNext]_allVars PROVE I'
    OBVIOUS
  <2>1. CASE [Next]_vars
    <3>1. eintr' = 0 => InLock'
      BY <2>1, InterruptedStays, InLockStep DEF SempHeld
    <3> QED
      BY <2>1, <3>1, PosSetStep, SingleStep
  <2>2. CASE Erasing
    <3>1. PosSet' /\ (eintr' = 0 => InLock')
      BY <2>2 DEF Erasing, tableVars, semVars, PosSet, InLock, Critical, Semp!Valid, Semp!Exists
    <3>2. \A s \in Slots : table'[s].pid \in {table[s].pid, NoPid} /\ table[s].pid \in Procs \cup {NoPid}
      BY <2>2 DEF Erasing, TypeOK, TableTypeOK, Record
    <3>3. Single'
      BY <2>2, <3>2, CpactiveAssumption
      DEF Erasing, tableVars, Single, Scanned, CpactiveAssumption
    <3>4. OneRecord'
      BY <3>2 DEF OneRecord
    <3> QED
      BY <3>1, <3>3, <3>4
  <2> QED
    BY <2>1, <2>2, DaemonStep DEF TypeOK
<1> HIDE DEF I
<1>4. CSpec => []I
  BY <1>1, <1>2, <1>3, PTL DEF CSpec
<1>5. TypeOK /\ DaemonTypeOK /\ SempHeld /\ I => GuardInv
  BY DEF GuardInv, I
<1> QED
  BY <1>1, <1>4, <1>5, PTL

\* With a daemon that erases records and kills processes without the lock, still only
\* one process at a time fills a slot (as long as no wait() has been interrupted), and
\* no pid has two records.
THEOREM DaemonLeavesOneFiller == CSpec => []OneFiller
<1>1. GuardInv => OneFiller
  BY OneInLock DEF GuardInv, OneFiller, TableLocked, SempHeld
<1> QED
  BY <1>1, GuardInvariant, PTL
=============================================================================
