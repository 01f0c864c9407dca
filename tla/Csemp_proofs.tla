---------------------------- MODULE Csemp_proofs ----------------------------
(***************************************************************************)
(* Proofs about the semaphore class of Csemp: type correctness for every   *)
(* value of the constants, and mutual exclusion for as long as no wait()   *)
(* has been interrupted by a signal handler.                               *)
(***************************************************************************)
EXTENDS Csemp, TLAPS

\* Csemp keeps its types: the kernel's value and adjustments stay in range
\* through every interleaving of init, wait, post, destroy and death.
THEOREM TypeCorrect == Spec => []TypeOK
<1>1. Init => TypeOK
  BY CsempAssumption DEF Init, TypeOK, NoSem, PC
<1>2. TypeOK /\ [Next]_vars => TypeOK'
  <2> SUFFICES ASSUME TypeOK, [Next]_vars PROVE TypeOK'
    OBVIOUS
  <2> USE CsempAssumption DEF TypeOK, NoSem, PC, Goto, Exists, Valid
  <2>1. ASSUME NEW p \in Procs, Construct(p) PROVE TypeOK'
    BY <2>1 DEF Construct
  <2>2. ASSUME NEW p \in Procs, InitGet(p) PROVE TypeOK'
    BY <2>2 DEF InitGet
  <2>3. ASSUME NEW p \in Procs, InitCreate(p) PROVE TypeOK'
    <3>1. CASE ~Exists /\ last < MaxSem /\ last' = last + 1
              /\ kern' = [id |-> last + 1, val |-> 0, init |-> FALSE]
              /\ semid' = [semid EXCEPT ![p] = last + 1]
              /\ adj' = [q \in Procs |-> 0] /\ Goto(p, "setval")
              /\ UNCHANGED eintr
      <4>1. last + 1 \in 0 .. MaxSem
        BY <3>1
      <4>2. kern' \in [id : 0 .. MaxSem, val : 0 .. SemVmx, init : BOOLEAN]
        BY <3>1, <4>1
      <4> QED
        BY <3>1, <4>1, <4>2
    <3>2. CASE UNCHANGED <<kern, last, adj, semid, eintr>>
               /\ (Goto(p, "again") \/ Goto(p, "failed"))
      BY <3>2
    <3> QED
      BY <2>3, <3>1, <3>2 DEF InitCreate
  <2>4. ASSUME NEW p \in Procs, InitAgain(p) PROVE TypeOK'
    BY <2>4 DEF InitAgain
  <2>5. ASSUME NEW p \in Procs, InitSetval(p) PROVE TypeOK'
    <3>1. kern' \in [id : 0 .. MaxSem, val : 0 .. SemVmx, init : BOOLEAN]
      <4>1. 1 \in 0 .. SemVmx
        OBVIOUS
      <4> QED
        BY <2>5, <4>1 DEF InitSetval
    <3>2. adj' \in [Procs -> -1 - SemVmx .. SemVmx]
      BY <2>5 DEF InitSetval
    <3> QED
      BY <2>5, <3>1, <3>2 DEF InitSetval
  <2>6. ASSUME NEW p \in Procs, Wait(p) PROVE TypeOK'
    <3>1. kern' \in [id : 0 .. MaxSem, val : 0 .. SemVmx, init : BOOLEAN]
      BY <2>6 DEF Wait, Takeable
    <3>2. adj' \in [Procs -> -1 - SemVmx .. SemVmx]
      BY <2>6 DEF Wait, Takeable
    <3> QED
      BY <2>6, <3>1, <3>2 DEF Wait, Takeable
  <2>7. ASSUME NEW p \in Procs, WaitInterrupted(p) PROVE TypeOK'
    BY <2>7 DEF WaitInterrupted
  <2>8. ASSUME NEW p \in Procs, Post(p) PROVE TypeOK'
    <3>1. kern' \in [id : 0 .. MaxSem, val : 0 .. SemVmx, init : BOOLEAN]
      BY <2>8 DEF Post
    <3>2. adj' \in [Procs -> -1 - SemVmx .. SemVmx]
      BY <2>8 DEF Post
    <3> QED
      BY <2>8, <3>1, <3>2 DEF Post
  <2>9. ASSUME NEW p \in Procs, Destroy(p) PROVE TypeOK'
    BY <2>9 DEF Destroy
  <2>10. ASSUME NEW p \in Procs, Die(p) PROVE TypeOK'
    <3>1. Undo(kern.val, adj[p]) \in 0 .. SemVmx
      BY DEF Undo
    <3>2. kern' \in [id : 0 .. MaxSem, val : 0 .. SemVmx, init : BOOLEAN]
      BY <2>10, <3>1 DEF Die
    <3> QED
      BY <2>10, <3>2 DEF Die
  <2>11. CASE UNCHANGED vars
    BY <2>11 DEF vars
  <2> QED
    BY <2>1, <2>2, <2>3, <2>4, <2>5, <2>6, <2>7, <2>8, <2>9, <2>10, <2>11
    DEF Next
<1> QED
  BY <1>1, <1>2, PTL DEF Spec

-----------------------------------------------------------------------------
\* The inductive step: one action at a time.  An interrupted wait() is the only
\* action that breaks LockHeld, and it is counted in eintr.
LEMMA LockHeldStep ==
  ASSUME LockHeld, eintr' = 0, TypeOK', [Next]_vars
  PROVE  LockHeld'
<1> USE CsempAssumption DEF LockHeld, TypeOK, IdsFresh, OneCreator, Creating, Adjusted,
        ValueCounts, Holders, Valid, Exists, NoSem, Goto, PC
<1>1. ASSUME NEW p \in Procs, Construct(p) PROVE LockHeld'
  BY <1>1 DEF Construct
<1>2. ASSUME NEW p \in Procs, InitGet(p) PROVE LockHeld'
  BY <1>2 DEF InitGet
<1>3. ASSUME NEW p \in Procs, InitCreate(p) PROVE LockHeld'
  BY <1>3 DEF InitCreate
<1>4. ASSUME NEW p \in Procs, InitAgain(p) PROVE LockHeld'
  BY <1>4 DEF InitAgain
<1>5. ASSUME NEW p \in Procs, InitSetval(p) PROVE LockHeld'
  <2>1. CASE Valid(p)
    <3>1. kern.val = 0 /\ Holders = {} /\ ~kern.init
      BY <1>5, <2>1 DEF InitSetval
    <3>2. kern'.val = 1 /\ kern'.init /\ kern'.id = kern.id
      BY <1>5, <2>1, ZenonT(40) DEF InitSetval
    <3>3. Holders' = {}
      BY <1>5, <2>1, <3>1, <3>2 DEF InitSetval
    <3>4. IdsFresh' /\ OneCreator'
      BY <1>5, <2>1, <3>1, <3>2 DEF InitSetval
    <3>5. Adjusted'
      <4>1. \A q \in Procs : adj'[q] = 0
        BY <1>5, <2>1 DEF InitSetval
      <4> QED
        BY <3>3, <4>1
    <3>6. ValueCounts'
      BY <3>2, <3>3
    <3> QED
      BY <3>4, <3>5, <3>6
  <2>2. CASE ~Valid(p)
    BY <1>5, <2>2 DEF InitSetval
  <2> QED
    BY <2>1, <2>2
<1>6. ASSUME NEW p \in Procs, Wait(p) PROVE LockHeld'
  BY <1>6 DEF Wait, Takeable
<1>7. ASSUME NEW p \in Procs, WaitInterrupted(p) PROVE LockHeld'
  BY <1>7 DEF WaitInterrupted
<1>8. ASSUME NEW p \in Procs, Post(p) PROVE LockHeld'
  BY <1>8 DEF Post
<1>9. ASSUME NEW p \in Procs, Destroy(p) PROVE LockHeld'
  BY <1>9 DEF Destroy
<1>10. ASSUME NEW p \in Procs, Die(p) PROVE LockHeld'
  BY <1>10 DEF Die, Undo
<1>11. CASE UNCHANGED vars
  BY <1>11 DEF vars
<1> QED
  BY <1>1, <1>2, <1>3, <1>4, <1>5, <1>6, <1>7, <1>8, <1>9, <1>10, <1>11 DEF Next

\* Nothing makes an interruption forgotten.
LEMMA InterruptedStays == TypeOK /\ eintr # 0 /\ [Next]_vars => eintr' # 0
BY CsempAssumption DEF TypeOK, Next, vars, Construct, InitGet, InitCreate, InitAgain, InitSetval, Wait,
   WaitInterrupted, Post, Destroy, Die

\* LockInv holds throughout.
THEOREM LockInvariant == Spec => []LockInv
<1>1. Init => LockInv
  BY CsempAssumption
  DEF Init, LockInv, LockHeld, TypeOK, IdsFresh, OneCreator, Creating, Adjusted,
      ValueCounts, Holders, Valid, Exists, NoSem, PC
<1>2. LockInv /\ TypeOK' /\ [Next]_vars => LockInv'
  <2> SUFFICES ASSUME LockInv, TypeOK', [Next]_vars, eintr' = 0
               PROVE  LockHeld'
    BY DEF LockInv
  <2>1. eintr = 0
    BY InterruptedStays DEF LockInv
  <2>2. LockHeld
    BY <2>1 DEF LockInv
  <2> QED
    BY <2>2, LockHeldStep
<1> QED
  BY <1>1, <1>2, TypeCorrect, PTL DEF Spec

\* Mutual exclusion of the semaphore: at most one process is between a wait()
\* that returned true and its post(), and the value is 0 just then, for every
\* number of processes, deaths, restarts and removals of the set, for as long as
\* no wait() has been interrupted.
THEOREM LockSafe == Spec => []LockSound
<1>1. LockInv => LockSound
  BY DEF LockInv, LockHeld, ValueCounts, LockSound, Mutex, LockNotLost
<1> QED
  BY <1>1, LockInvariant, PTL

=============================================================================
