------------------------------- MODULE Csemp -------------------------------
(***************************************************************************)
(* The System V semaphore class csemp (public.h, public.cpp), used as a    *)
(* mutual-exclusion lock: init(key,1,SEM_UNDO), then wait(), then post().  *)
(*                                                                         *)
(* Kernel side.  kern.id is the identifier of the semaphore set bound to   *)
(* the key, or NoSem; kern.val is its value; kern.init tells whether       *)
(* SETVAL has been applied to it (the code keeps no such flag).  adj[p] is *)
(* the SEM_UNDO adjustment the kernel applies when process p dies.         *)
(* Process side.  semid[p] is m_semid (NoSem stands for -1) and pc[p] the  *)
(* place of p in init, wait and post:                                      *)
(*   "none"    no process has this identity                                *)
(*   "new"     object constructed, about to call semget (init, step 1)     *)
(*   "create"  the first semget said ENOENT                                *)
(*   "again"   the exclusive semget said EEXIST                            *)
(*   "setval"  p created the set, its value is still 0                     *)
(*   "ready"   init returned true; p is in wait()                          *)
(*   "hold"    wait() returned true                                        *)
(*   "refused" wait() returned false                                       *)
(*   "done"    post() has been called                                      *)
(*   "failed"  init returned false                                         *)
(* eintr is a history variable: how many wait() calls a handler has ended.  *)
(* They post all the same, which adds a unit nobody had taken.             *)
(***************************************************************************)
EXTENDS Integers, FiniteSets

CONSTANTS
  Procs,          \* process identities
  MaxSem,         \* bound: semaphore sets created during a behaviour
  SemVmx,         \* the kernel's largest semaphore value (SEMVMX)
  MaxEintr,       \* bound: wait() calls that a signal handler ends (EINTR)
  Destroyers,     \* processes that may call destroy()
  SemgetFails     \* TRUE if creating the set may fail (ENOSPC and the like)

ASSUME CsempAssumption ==
  /\ MaxSem \in Nat \ {0}
  /\ SemVmx \in Nat \ {0}
  /\ MaxEintr \in Nat
  /\ Destroyers \subseteq Procs
  /\ SemgetFails \in BOOLEAN

VARIABLES kern, last, adj, semid, pc, eintr

vars == <<kern, last, adj, semid, pc, eintr>>

NoSem == 0
PC == {"none", "new", "create", "again", "setval", "ready", "hold",
       "refused", "done", "failed"}

\* The type invariant.
TypeOK ==
  /\ kern \in [id : 0 .. MaxSem, val : 0 .. SemVmx, init : BOOLEAN]
  /\ last \in 0 .. MaxSem
  /\ adj \in [Procs -> -1 - SemVmx .. SemVmx]
  /\ semid \in [Procs -> 0 .. MaxSem]
  /\ pc \in [Procs -> PC]
  /\ eintr \in 0 .. MaxEintr

Init ==
  /\ kern = [id |-> NoSem, val |-> 0, init |-> FALSE]
  /\ last = NoSem
  /\ adj = [p \in Procs |-> 0]
  /\ semid = [p \in Procs |-> NoSem]
  /\ pc = [p \in Procs |-> "none"]
  /\ eintr = 0

Exists == kern.id # NoSem
Valid(p) == Exists /\ semid[p] = kern.id      \* m_semid still names a set
Goto(p, l) == pc' = [pc EXCEPT ![p] = l]

-----------------------------------------------------------------------------
\* csemp::csemp: m_semid is -1.  A process may construct one object after
\* another; ~csemp leaves the kernel's state and the adjustment alone.
Construct(p) ==
  /\ pc[p] \in {"none", "done", "failed"}
  /\ Goto(p, "new")
  /\ semid' = [semid EXCEPT ![p] = NoSem]
  /\ UNCHANGED <<kern, last, adj, eintr>>

\* init, step 1: semget(key,1,0666); init returns false if it fails with
\* anything but ENOENT.
InitGet(p) ==
  /\ pc[p] = "new"
  /\ \/ /\ semid' = [semid EXCEPT ![p] = kern.id]
        /\ Goto(p, IF Exists THEN "ready" ELSE "create")
     \/ /\ SemgetFails
        /\ Goto(p, "failed")
        /\ UNCHANGED semid
  /\ UNCHANGED <<kern, last, adj, eintr>>

\* init, step 2: semget with IPC_CREAT|IPC_EXCL.  The new set has value 0.
InitCreate(p) ==
  /\ pc[p] = "create"
  /\ \/ /\ ~Exists
        /\ last < MaxSem
        /\ last' = last + 1
        /\ kern' = [id |-> last + 1, val |-> 0, init |-> FALSE]
        /\ semid' = [semid EXCEPT ![p] = last + 1]
        /\ adj' = [q \in Procs |-> 0]
        /\ Goto(p, "setval")
     \/ /\ Exists
        /\ Goto(p, "again")
        /\ UNCHANGED <<kern, last, adj, semid>>
     \/ /\ SemgetFails
        /\ Goto(p, "failed")
        /\ UNCHANGED <<kern, last, adj, semid>>
  /\ UNCHANGED eintr

\* A wrong init: after EEXIST it goes on to SETVAL instead of returning.
InitAgain_Sets(p) ==
  /\ pc[p] = "again"
  /\ semid' = [semid EXCEPT ![p] = kern.id]
  /\ Goto(p, IF Exists THEN "setval" ELSE "failed")
  /\ UNCHANGED <<kern, last, adj, eintr>>

\* init after EEXIST: semget once more; the set may have been removed again.
InitAgain(p) ==
  /\ pc[p] = "again"
  /\ semid' = [semid EXCEPT ![p] = kern.id]
  /\ Goto(p, IF Exists THEN "ready" ELSE "failed")
  /\ UNCHANGED <<kern, last, adj, eintr>>

\* init, step 3: semctl(SETVAL,1), which also forgets the adjustments.
InitSetval(p) ==
  /\ pc[p] = "setval"
  /\ \/ /\ Valid(p)
        /\ kern' = [kern EXCEPT !.val = 1, !.init = TRUE]
        /\ adj' = [q \in Procs |-> 0]
        /\ Goto(p, "ready")
     \/ /\ ~Valid(p)
        /\ Goto(p, "failed")
        /\ UNCHANGED <<kern, adj>>
  /\ UNCHANGED <<last, semid, eintr>>

InitStep(p) == InitGet(p) \/ InitCreate(p) \/ InitAgain(p) \/ InitSetval(p)

\* semop(-1) with SEM_UNDO can be done now.
Takeable(p) == kern.val > 0 /\ adj[p] < SemVmx

\* A wrong wait: sem_flg is 0 instead of SEM_UNDO.
Wait_NoUndo(p) ==
  /\ pc[p] = "ready"
  /\ \/ /\ Valid(p) /\ Takeable(p)
        /\ kern' = [kern EXCEPT !.val = @ - 1]
        /\ Goto(p, "hold")
     \/ /\ ~Valid(p)
        /\ Goto(p, "refused")
        /\ UNCHANGED kern
  /\ UNCHANGED <<last, adj, semid, eintr>>

\* wait(): semop(-1) with SEM_UNDO blocks while the value is 0 and fails when
\* the set is gone (EINVAL, or EIDRM for a sleeper) or the adjustment is at
\* its largest (ERANGE).
Wait(p) ==
  /\ pc[p] = "ready"
  /\ \/ /\ Valid(p) /\ Takeable(p)
        /\ kern' = [kern EXCEPT !.val = @ - 1]
        /\ adj' = [adj EXCEPT ![p] = @ + 1]
        /\ Goto(p, "hold")
     \/ /\ ~Valid(p) \/ (kern.val > 0 /\ adj[p] >= SemVmx)
        /\ Goto(p, "refused")
        /\ UNCHANGED <<kern, adj>>
  /\ UNCHANGED <<last, semid, eintr>>

\* wait() asleep in semop and interrupted by a handler: EINTR, returns false.
WaitInterrupted(p) ==
  /\ pc[p] = "ready"
  /\ eintr < MaxEintr
  /\ Valid(p) /\ kern.val <= 0
  /\ Goto(p, "refused")
  /\ eintr' = eintr + 1
  /\ UNCHANGED <<kern, last, adj, semid>>

\* post(): semop(+1) with SEM_UNDO; it fails on a removed set (EINVAL) and at
\* the largest value or adjustment (ERANGE).  addpinfo posts whatever wait()
\* returned.
Post(p) ==
  /\ pc[p] \in {"hold", "refused"}
  /\ IF Valid(p) /\ kern.val < SemVmx /\ adj[p] >= -SemVmx
     THEN /\ kern' = [kern EXCEPT !.val = @ + 1]
          /\ adj' = [adj EXCEPT ![p] = @ - 1]
     ELSE UNCHANGED <<kern, adj>>
  /\ Goto(p, "done")
  /\ UNCHANGED <<last, semid, eintr>>

\* destroy(): semctl(IPC_RMID).
Destroy(p) ==
  /\ p \in Destroyers
  /\ pc[p] \in {"ready", "done"}
  /\ Valid(p)
  /\ kern' = [id |-> NoSem, val |-> 0, init |-> FALSE]
  /\ adj' = [q \in Procs |-> 0]
  /\ UNCHANGED <<last, semid, pc, eintr>>

\* What the kernel leaves of value v after undoing adjustment a.
Undo(v, a) == IF v + a < 0 THEN 0 ELSE IF v + a > SemVmx THEN SemVmx ELSE v + a

\* The process ends, by itself or by a signal, anywhere: the kernel undoes.
Die(p) ==
  /\ pc[p] # "none"
  /\ kern' = [kern EXCEPT !.val = Undo(@, adj[p])]
  /\ adj' = [adj EXCEPT ![p] = 0]
  /\ semid' = [semid EXCEPT ![p] = NoSem]
  /\ Goto(p, "none")
  /\ UNCHANGED <<last, eintr>>

Next ==
  \E p \in Procs :
    \/ Construct(p) \/ InitGet(p) \/ InitCreate(p) \/ InitAgain(p)
    \/ InitSetval(p) \/ Wait(p) \/ WaitInterrupted(p) \/ Post(p)
    \/ Destroy(p) \/ Die(p)

(***************************************************************************)
(* Fairness: a live process keeps running (weak fairness of its own        *)
(* steps), and the kernel serves the sleepers of a semaphore in order, so  *)
(* one of them is not passed over for ever (strong fairness of Wait).      *)
(***************************************************************************)
Fairness ==
  \A p \in Procs : /\ WF_vars(InitStep(p))
                   /\ SF_vars(Wait(p))
                   /\ WF_vars(Post(p))

Spec == Init /\ [][Next]_vars
FairSpec == Spec /\ Fairness

-----------------------------------------------------------------------------
\* The processes whose wait() on the current set has returned true.
Holders == {p \in Procs : pc[p] = "hold" /\ Valid(p)}

\* Mutual exclusion per set: of the processes whose wait() succeeded on the
\* set bound to the key, at most one is between wait() and post(), through
\* creation races, deaths undone by the kernel and removals of older sets, as
\* long as no wait() has been interrupted by a handler.
Mutex == eintr = 0 => \A p, q \in Holders : p = q

\* The lock is accounted for: once SETVAL has run the value is 0 exactly while
\* a live process holds the lock, so a dead holder never keeps it locked, as
\* long as no wait() has been interrupted.
LockNotLost == eintr = 0 /\ kern.init => (kern.val = 0 <=> Holders # {})

\* The lock is sound: it excludes and it is never lost.
LockSound == Mutex /\ LockNotLost

\* The inductive invariant behind LockSound.
IdsFresh ==
  /\ kern.id \in {NoSem, last}
  /\ ~Exists => kern.val = 0 /\ ~kern.init
  /\ \A p \in Procs :
       /\ semid[p] <= last
       /\ pc[p] \in {"none", "new", "create", "again"} => semid[p] = NoSem
       /\ pc[p] = "refused" => ~Valid(p)

Creating(p) == pc[p] = "setval" /\ Valid(p)
OneCreator ==
  \A p \in Procs : Creating(p) =>
    ~kern.init /\ \A q \in Procs : Creating(q) => p = q

Adjusted == \A p \in Procs : adj[p] = IF p \in Holders THEN 1 ELSE 0

ValueCounts ==
  \/ kern.val = 0 /\ Holders = {} /\ ~kern.init
  \/ kern.val = 1 /\ Holders = {} /\ kern.init
  \/ kern.val = 0 /\ kern.init /\ \E h \in Procs : Holders = {h}

\* The state of the lock while no wait() has been interrupted.
LockHeld == TypeOK /\ IdsFresh /\ OneCreator /\ Adjusted /\ ValueCounts

LockInv == TypeOK /\ (eintr = 0 => LockHeld)

\* The creator of the current set died before SETVAL: nobody will set it.
Orphan ==
  Exists /\ ~kern.init /\ ~ \E p \in Procs : Creating(p)

\* Every process that enters wait() leaves it (with the lock, with an error or
\* by dying), unless the creator of the set died before SETVAL.
WaitReturns == \A p \in Procs : pc[p] = "ready" ~> (pc[p] # "ready" \/ Orphan)

=============================================================================
