------------------------------ MODULE OutCache ------------------------------
(***************************************************************************)
(* The producer-consumer program of the scheduling chapter: threads take   *)
(* messages from vcache under a mutex and a condition variable, and the    *)
(* producer, incache, is the handler of signal 15. It runs on whichever    *)
(* thread takes the signal, in the middle of what that thread does, and    *)
(* locks the same mutex.                                                   *)
(*                                                                         *)
(* opc[t] is the place of consumer t in outcache: "lock" at the mutex, or  *)
(* woken in pthread_cond_wait and about to take it again; "test" holding   *)
(* it; "erase" between memcpy and erase; "wait" asleep. sig[t] is the      *)
(* place of thread t in incache: "none" outside, "lock", "push",           *)
(* "broadcast". pending: a signal waits to be taken; a second one is lost. *)
(* stmesg[t] is the message t has copied, 0 for none. taken is a history   *)
(* variable, the messages taken, in turn.                                  *)
(***************************************************************************)
EXTENDS Naturals, Sequences, SequencesExt

CONSTANTS
  Consumers,     \* the threads main creates
  Joiner, Nobody,  \* the main thread, in pthread_join, and no thread
  Batch,         \* the messages incache makes at a time
  MaxSignals     \* bound: signals sent

ASSUME OutCacheAssumption ==
  Nobody \notin Consumers \cup {Joiner} /\ Batch \in Nat /\ MaxSignals \in Nat

VARIABLES mutex, vcache, mesgid, opc, sig, stmesg, pending, sent, taken

cacheVars == <<mutex, vcache, mesgid, opc, sig, stmesg, pending, sent, taken>>
Threads == Consumers \cup {Joiner}

\* The type invariant.
CacheTypeOK ==
  /\ mutex \in Threads \cup {Nobody}
  /\ vcache \in Seq(Nat) /\ taken \in Seq(Nat) /\ mesgid \in Nat
  /\ opc \in [Consumers -> {"lock", "test", "erase", "wait"}]
  /\ sig \in [Threads -> {"none", "lock", "push", "broadcast"}]
  /\ stmesg \in [Consumers -> Nat]
  /\ pending \in BOOLEAN /\ sent \in 0 .. MaxSignals

CacheInit ==
  /\ mutex = Nobody /\ vcache = <<>> /\ mesgid = 1
  /\ opc = [t \in Consumers |-> "lock"]
  /\ sig = [t \in Threads |-> "none"]
  /\ stmesg = [t \in Consumers |-> 0]
  /\ pending = FALSE /\ sent = 0 /\ taken = <<>>

-----------------------------------------------------------------------------
\* Somebody sends signal 15; any thread not in its handler takes it.
Kill ==
  /\ sent < MaxSignals
  /\ sent' = sent + 1 /\ pending' = TRUE
  /\ UNCHANGED <<mutex, vcache, mesgid, opc, sig, stmesg, taken>>

Deliver(t) ==
  /\ pending /\ sig[t] = "none"
  /\ sig' = [sig EXCEPT ![t] = "lock"]
  /\ pending' = FALSE
  /\ UNCHANGED <<mutex, vcache, mesgid, opc, stmesg, sent, taken>>

\* incache: pthread_mutex_lock, of a mutex this thread may hold already.
LockIn(t) ==
  /\ sig[t] = "lock" /\ mutex = Nobody
  /\ mutex' = t
  /\ sig' = [sig EXCEPT ![t] = "push"]
  /\ UNCHANGED <<vcache, mesgid, opc, stmesg, pending, sent, taken>>

\* incache: the messages, numbered on, and unlock.
Push(t) ==
  /\ sig[t] = "push"
  /\ vcache' = vcache \o [i \in 1 .. Batch |-> mesgid + i - 1]
  /\ mesgid' = mesgid + Batch
  /\ mutex' = Nobody
  /\ sig' = [sig EXCEPT ![t] = "broadcast"]
  /\ UNCHANGED <<opc, stmesg, pending, sent, taken>>

\* A wrong incache: nobody is woken.
Woken_None(t) == opc[t]

\* incache: pthread_cond_broadcast, which also wakes the thread it interrupted.
Woken(t) == IF opc[t] = "wait" THEN "lock" ELSE opc[t]
Broadcast(t) ==
  /\ sig[t] = "broadcast"
  /\ opc' = [u \in Consumers |-> Woken(u)]
  /\ sig' = [sig EXCEPT ![t] = "none"]
  /\ UNCHANGED <<mutex, vcache, mesgid, stmesg, pending, sent, taken>>

-----------------------------------------------------------------------------
\* outcache, while its thread is not interrupted.
At(t, l) == sig[t] = "none" /\ opc[t] = l
Goes(t, l) == opc' = [opc EXCEPT ![t] = l]

LockOut(t) ==
  /\ At(t, "lock") /\ mutex = Nobody
  /\ mutex' = t
  /\ Goes(t, "test")
  /\ UNCHANGED <<vcache, mesgid, sig, stmesg, pending, sent, taken>>

\* pthread_cond_wait, which may return without a signal.
CondWait(t) ==
  /\ At(t, "test") /\ vcache = <<>>
  /\ mutex' = Nobody
  /\ Goes(t, "wait")
  /\ UNCHANGED <<vcache, mesgid, sig, stmesg, pending, sent, taken>>
WakesUp(t) ==
  /\ At(t, "wait")
  /\ Goes(t, "lock")
  /\ UNCHANGED <<mutex, vcache, mesgid, sig, stmesg, pending, sent, taken>>

\* A wrong outcache: it unlocks as soon as it has copied.
Copy_Unlocks(t) ==
  /\ At(t, "test") /\ vcache # <<>>
  /\ stmesg' = [stmesg EXCEPT ![t] = Head(vcache)]
  /\ mutex' = Nobody
  /\ Goes(t, "erase")
  /\ UNCHANGED <<vcache, mesgid, sig, pending, sent, taken>>

\* memcpy of the first message ...
Copy(t) ==
  /\ At(t, "test") /\ vcache # <<>>
  /\ stmesg' = [stmesg EXCEPT ![t] = Head(vcache)]
  /\ Goes(t, "erase")
  /\ UNCHANGED <<mutex, vcache, mesgid, sig, pending, sent, taken>>

\* ... erase and unlock; the message is dealt with.
Erase(t) ==
  /\ At(t, "erase")
  /\ vcache' = IF vcache = <<>> THEN <<>> ELSE Tail(vcache)
  /\ taken' = Append(taken, stmesg[t])
  /\ stmesg' = [stmesg EXCEPT ![t] = 0]
  /\ mutex' = Nobody
  /\ Goes(t, "lock")
  /\ UNCHANGED <<mesgid, sig, pending, sent>>

Holding(t) == Push(t) \/ Broadcast(t)
Consume(t) == CondWait(t) \/ Copy(t) \/ Erase(t)
CacheNext ==
  \/ Kill
  \/ \E t \in Threads : Deliver(t) \/ LockIn(t) \/ Holding(t)
  \/ \E t \in Consumers : LockOut(t) \/ Consume(t) \/ WakesUp(t)

(***************************************************************************)
(* Fairness: threads keep running, a signal is taken, and a free mutex is  *)
(* taken by one of the threads that want it, whichever.                    *)
(***************************************************************************)
CacheSpec == CacheInit /\ [][CacheNext]_cacheVars
CacheFairSpec ==
  /\ CacheSpec
  /\ WF_cacheVars(\E t \in Threads : Deliver(t))
  /\ WF_cacheVars(\E t \in Threads : LockIn(t)) /\ WF_cacheVars(\E t \in Consumers : LockOut(t))
  /\ \A t \in Threads : WF_cacheVars(Holding(t))
  /\ \A t \in Consumers : WF_cacheVars(Consume(t))

-----------------------------------------------------------------------------
\* Every message is taken once and in the order of its number, however many
\* threads take and wherever the producer interrupts them.
TakenInOrder == taken \o vcache = [i \in 1 .. mesgid - 1 |-> i]

\* The signal has interrupted a thread that holds the mutex: it waits for itself.
SelfLocked == \E t \in Threads : sig[t] = "lock" /\ mutex = t

\* The cache is emptied in the end, unless a consumer was interrupted where it
\* holds the mutex (incache then stops the program: its lock is not recursive).
AllTaken == (vcache # <<>>) ~> (vcache = <<>> \/ SelfLocked)
=============================================================================
